---------------------------- MODULE Spec2Model ----------------------------
(***************************************************************************)
(* A model of the username generator (package username_generator):         *)
(*   - core.py       the strategy dispatcher, the generators, the          *)
(*                   constraint-satisfying retry loop                      *)
(*   - modifiers.py  the modifier chain and the rhyme/alliteration checks  *)
(*   - cli.py        process_username                                      *)
(*   - checker.py    the availability prober                               *)
(*                                                                         *)
(* A Python string is a sequence of one-character strings, a list is a     *)
(* sequence, an Optional value is <<>> (None) or <<v>>.  Every call of the *)
(* random module is a choice among the outcomes it can produce.            *)
(***************************************************************************)
EXTENDS Integers, Sequences, FiniteSets, TLC

(***************************************************************************)
(* Characters and strings                                                  *)
(***************************************************************************)
UpperChars == <<"A","B","C","D","E","F","G","H","I","J","K","L","M",
                "N","O","P","Q","R","S","T","U","V","W","X","Y","Z">>

LowerChars == <<"a","b","c","d","e","f","g","h","i","j","k","l","m",
                "n","o","p","q","r","s","t","u","v","w","x","y","z">>

DigitChars == <<"0","1","2","3","4","5","6","7","8","9">>

Range(s) == {s[i] : i \in DOMAIN s}

IndexIn(c, s) == CHOOSE i \in DOMAIN s : s[i] = c

isupper(c) == c \in Range(UpperChars)

islower(c) == c \in Range(LowerChars)

\* str.isalpha / str.isdigit on one character
isalpha(c) == isupper(c) \/ islower(c)

isdigit(c) == c \in Range(DigitChars)

isspace(c) == c = " "

lower_char(c) == IF isupper(c) THEN LowerChars[IndexIn(c, UpperChars)] ELSE c

upper_char(c) == IF islower(c) THEN UpperChars[IndexIn(c, LowerChars)] ELSE c

\* str.lower / str.upper
lower(s) == [i \in DOMAIN s |-> lower_char(s[i])]

upper(s) == [i \in DOMAIN s |-> upper_char(s[i])]

\* s[a:b] of Python, 0-based, b exclusive, clipped to the string
Slice(s, a, b) == SubSeq(s, a + 1, IF b > Len(s) THEN Len(s) ELSE b)

\* s[-n:] of Python for n >= 1
LastN(s, n) == IF Len(s) <= n THEN s ELSE SubSeq(s, Len(s) - n + 1, Len(s))

StartsWith(s, t) == Len(s) >= Len(t) /\ SubSeq(s, 1, Len(t)) = t

\* "t in s" of Python on strings
Contains(s, t) == \E i \in 0..(Len(s) - Len(t)) : SubSeq(s, i + 1, i + Len(t)) = t

\* str.replace(old, new) for a non-empty old: leftmost, non-overlapping
RECURSIVE Replace(_, _, _)
Replace(s, old, new) ==
    IF Len(s) < Len(old) THEN s
    ELSE IF StartsWith(s, old)
         THEN new \o Replace(SubSeq(s, Len(old) + 1, Len(s)), old, new)
         ELSE <<s[1]>> \o Replace(Tail(s), old, new)

\* str(n) for n >= 0
RECURSIVE IntToStr(_)
IntToStr(n) == IF n < 10 THEN <<DigitChars[n + 1]>>
               ELSE IntToStr(n \div 10) \o <<DigitChars[(n % 10) + 1]>>

\* Optional values
None == <<>>

Some(v) == <<v>>

IsNone(o) == Len(o) = 0

\* random.randint(lo, hi): the outcomes the model follows are the two ends
randint(lo, hi) == {lo, hi}

(***************************************************************************)
(* modifiers.py: alliteration and rhyme                                    *)
(***************************************************************************)
is_alliterative(word1, word2) ==
    IF Len(word1) = 0 \/ Len(word2) = 0 THEN FALSE
    ELSE lower_char(word1[1]) = lower_char(word2[1])

\* The phonetic dictionary behind pronouncing.rhymes: the words it knows and
\* what each rhymes with; any other word has no rhymes.
w_blue == <<"b","l","u","e">>

w_shoe == <<"s","h","o","e">>

w_fat == <<"f","a","t">>

w_fiat == <<"f","i","a","t">>

pronouncing_rhymes(s) ==
    CASE s = w_blue -> {w_shoe}
      [] s = w_shoe -> {w_blue}
      [] s = w_fat -> {<<"b","a","t">>, <<"c","a","t">>}
      [] OTHER -> {}

\* The suffix heuristic of is_rhyming on two lowercased non-empty words
suffix_rhyme(s1, s2) ==
    IF Len(s1) < 3 \/ Len(s2) < 3
    THEN s1[Len(s1)] = s2[Len(s2)]
    ELSE LastN(s1, 2) = LastN(s2, 2)

\* The rhyme set is_rhyming consults for s1: the cached one on a hit
rhymes_of(s1, cache) ==
    IF s1 \in DOMAIN cache THEN cache[s1] ELSE pronouncing_rhymes(s1)

\* The boolean is_rhyming returns, given whether the library was imported
is_rhyming(word1, word2, lib, cache) ==
    IF Len(word1) = 0 \/ Len(word2) = 0 THEN FALSE
    ELSE IF lib /\ lower(word2) \in rhymes_of(lower(word1), cache) THEN TRUE
    ELSE suffix_rhyme(lower(word1), lower(word2))

\* The cache is_rhyming leaves behind
is_rhyming_cache(word1, word2, lib, cache) ==
    IF Len(word1) = 0 \/ Len(word2) = 0 THEN cache
    ELSE IF lib /\ lower(word1) \notin DOMAIN cache
         THEN cache @@ (lower(word1) :> pronouncing_rhymes(lower(word1)))
         ELSE cache


(***************************************************************************)
(* State                                                                   *)
(***************************************************************************)
VARIABLES
    config,        \* the loaded AppConfig (ConfigManager._config)
    pronouncing,   \* whether "import pronouncing" succeeded
    rhyme_cache,   \* modifiers._RHYME_CACHE
    pc,            \* the position of the running call
    caller,        \* who called generate_from_pattern
    raised,        \* the exception that escaped, or "none"
    args,          \* the argparse.Namespace of the request
    generator,     \* the generators generate_base_username has invoked
    base,          \* what generate_base_username returned
    adjectives,    \* generate_from_pattern: its arguments and locals
    nouns,
    context,
    pattern,
    adj,
    noun,
    attempts,
    warned,        \* logger.warning was called
    result,        \* the value the generator returns
    prior_valid,   \* history: a pair drawn before the current one satisfied
                   \* every requested constraint
    adj_draws,     \* history: calls of random.choice(adjectives)
    noun_draws,    \* history: calls of random.choice(nouns)
    letters_only,  \* generate_anagram_username: its locals
    shuffled,
    shuffles,      \* iterations of the shuffle loop so far
    username,      \* process_username: its local
    applied,       \* history: the modifiers process_username has called
    trace,         \* history: the handle after each step of process_username
    platforms,     \* check_username_availability: its argument and locals
    targets,
    results,
    futures,
    max_workers,   \* of its ThreadPoolExecutor
    collected,     \* iterations of "for future in futures" completed
    checker,       \* the position of check_username_availability
    web,           \* what the server of each platform answers
    out_of_order,  \* history: a probe finished before one submitted earlier
    generated_list,\* generate_and_print: its local, and the loop variable i
    iteration,
    usernames,     \* main: what generate_and_print returned
    checked,       \* main: iterations of "for u in usernames" completed
    document,      \* config.json as read by json.load, after the UG_ overrides
    printed,       \* history: the handles written to stdout
    reported,      \* history: the exceptions reported on stderr
    rhyme_calls    \* the calls of is_rhyming under way, one for each thread

proberVars == <<platforms, targets, results, futures, max_workers, collected,
                checker, web, out_of_order>>

mainVars == <<generated_list, iteration, usernames, checked, document,
              printed, reported>>

\* What no step of the generation engine writes
envVars == <<config, pronouncing, proberVars, mainVars, rhyme_calls>>

gfpVars == <<adjectives, nouns, context, pattern, adj, noun, attempts, warned,
             prior_valid, adj_draws, noun_draws>>

anagramVars == <<letters_only, shuffled, shuffles>>

processVars == <<username, applied, trace>>

vars == <<config, pronouncing, rhyme_cache, pc, caller, raised, args,
          generator, base, adjectives, nouns, context, pattern, adj, noun,
          attempts, warned, result, prior_valid, adj_draws, noun_draws,
          letters_only, shuffled, shuffles, username, applied, trace,
          platforms, targets, results, futures, max_workers, collected,
          checker, web, out_of_order, generated_list, iteration, usernames,
          checked, document, printed, reported, rhyme_calls>>

(***************************************************************************)
(* core.py: generate_from_pattern                                          *)
(***************************************************************************)
AdjTok == <<"{","a","d","j","e","c","t","i","v","e","}">>

NounTok == <<"{","n","o","u","n","}">>

NumTok == <<"{","n","u","m","b","e","r","}">>

\* get_config_value('patterns', default): the default stands in only for None,
\* and AppConfig.patterns is a list (empty when the document has none)
all_patterns == config.patterns

noun_only_pattern(p) == Contains(p, NounTok) /\ ~Contains(p, AdjTok)

adjective_only_pattern(p) == Contains(p, AdjTok) /\ ~Contains(p, NounTok)

noun_fallback_patterns ==
    << NounTok \o NumTok, <<"T","h","e">> \o NounTok, <<"I","a","m">> \o NounTok >>

adjective_fallback_patterns ==
    << AdjTok \o NumTok, <<"V","e","r","y">> \o AdjTok >>

\* Step 1: the patterns the context allows
filter_patterns(ctx) ==
    IF ctx.only_nouns
    THEN LET ps == SelectSeq(all_patterns, noun_only_pattern)
         IN  IF Len(ps) = 0 THEN noun_fallback_patterns ELSE ps
    ELSE IF ctx.only_adjectives
    THEN LET ps == SelectSeq(all_patterns, adjective_only_pattern)
         IN  IF Len(ps) = 0 THEN adjective_fallback_patterns ELSE ps
    ELSE all_patterns

max_retries == 100

need_check(ctx) == ctx.alliteration \/ ctx.rhyme

while_condition(n) == n < max_retries

\* A slip: the rhyme test assigns valid instead of only clearing it, so the
\* result of the alliteration test is lost when both are requested
pair_valid_rhyme_overwrites(ctx, a, n, lib, cache) ==
    IF ctx.rhyme THEN is_rhyming(a, n, lib, cache)
    ELSE ctx.alliteration => is_alliterative(a, n)

\* "valid" after the two constraint tests of one attempt
pair_valid(ctx, a, n, lib, cache) ==
    /\ ctx.alliteration => is_alliterative(a, n)
    /\ ctx.rhyme => is_rhyming(a, n, lib, cache)

\* whether the attempt leaves the loop
loop_breaks(ctx, valid) == ~need_check(ctx) \/ valid

warning_condition(ctx, n) == need_check(ctx) /\ n >= max_retries

\* Steps 3 and 4: the separator override, then the three replacements
construct(p, ctx, a, n, num) ==
    LET p1 == IF IsNone(ctx.separator) THEN p
              ELSE Replace(p, <<"_">>, ctx.separator[1])
    IN  Replace(Replace(Replace(p1, AdjTok, a), NounTok, n), NumTok, num)

\* random.choice(patterns); an empty list raises IndexError
gfp_choose_pattern ==
    /\ pc = "gfp_pattern"
    /\ LET ps == filter_patterns(context)
       IN  IF Len(ps) = 0
           THEN /\ raised' = "IndexError"
                /\ pc' = "raised"
                /\ UNCHANGED pattern
           ELSE /\ \E i \in DOMAIN ps : pattern' = ps[i]
                /\ pc' = "gfp_loop"
                /\ UNCHANGED raised
    /\ UNCHANGED <<envVars, rhyme_cache, caller, args, generator, base,
                   adjectives, nouns, context, adj, noun, attempts, warned,
                   result, prior_valid, adj_draws, noun_draws, anagramVars,
                   processVars>>

\* One iteration of the while loop
gfp_attempt ==
    /\ pc = "gfp_loop"
    /\ while_condition(attempts)
    /\ IF Len(adjectives) = 0
       THEN /\ raised' = "IndexError"
            /\ pc' = "raised"
            /\ UNCHANGED <<adj, noun, attempts, rhyme_cache, prior_valid,
                           adj_draws, noun_draws>>
       ELSE \E i \in DOMAIN adjectives :
            /\ adj' = adjectives[i]
            /\ adj_draws' = adj_draws + 1
            /\ IF Len(nouns) = 0
               THEN /\ raised' = "IndexError"
                    /\ pc' = "raised"
                    /\ UNCHANGED <<noun, attempts, rhyme_cache, prior_valid,
                                   noun_draws>>
               ELSE \E j \in DOMAIN nouns :
                    /\ noun' = nouns[j]
                    /\ noun_draws' = noun_draws + 1
                    /\ attempts' = attempts + 1
                    /\ prior_valid' =
                          (prior_valid \/
                             (attempts > 0 /\
                              pair_valid(context, adj, noun, pronouncing,
                                         rhyme_cache)))
                    /\ rhyme_cache' =
                          IF need_check(context) /\ context.rhyme
                          THEN is_rhyming_cache(adj', noun', pronouncing,
                                                rhyme_cache)
                          ELSE rhyme_cache
                    /\ pc' = IF loop_breaks(context,
                                   pair_valid(context, adj', noun',
                                              pronouncing, rhyme_cache))
                             THEN "gfp_construct" ELSE "gfp_loop"
                    /\ UNCHANGED raised
    /\ UNCHANGED <<envVars, caller, args, generator, base, adjectives, nouns,
                   context, pattern, warned, result, anagramVars, processVars>>

\* The loop ends because its condition fails
gfp_exhausted ==
    /\ pc = "gfp_loop"
    /\ ~while_condition(attempts)
    /\ pc' = "gfp_construct"
    /\ UNCHANGED <<envVars, rhyme_cache, caller, raised, args, generator,
                   base, gfpVars, result, anagramVars, processVars>>

\* The warning, the number, the separator and the construction
gfp_construct ==
    /\ pc = "gfp_construct"
    /\ warned' = (warned \/ warning_condition(context, attempts))
    /\ \E n \in randint(1, 999) :
          result' = construct(pattern, context, adj, noun, IntToStr(n))
    /\ pc' = "returned"
    /\ UNCHANGED <<envVars, rhyme_cache, caller, raised, args, generator,
                   base, adjectives, nouns, context, pattern, adj, noun,
                   attempts, prior_valid, adj_draws, noun_draws, anagramVars,
                   processVars>>


(***************************************************************************)
(* core.py: the generators that need no retry loop.  Each is the set of    *)
(* the handles it can return.                                              *)
(***************************************************************************)
\* strftime's %m, %d, %H, %M: two digits, zero-padded
Pad2(n) == IF n < 10 THEN <<"0">> \o IntToStr(n) ELSE IntToStr(n)

\* datetime.datetime.now(): the moments the model follows
Clock ==
    { [month |-> 1, day |-> 5, hour |-> 9, minute |-> 7],
      [month |-> 12, day |-> 31, hour |-> 23, minute |-> 59] }

generate_timestamp_username(base_word) ==
    { base_word \o <<"_">> \o Pad2(now.month) \o Pad2(now.day) \o <<"_">>
                \o Pad2(now.hour) \o Pad2(now.minute) : now \in Clock }

generate_standard_username(base_word) ==
    { base_word \o IntToStr(n) : n \in randint(100, 999) }

\* str.capitalize
capitalize(w) ==
    IF Len(w) = 0 THEN w ELSE <<upper_char(w[1])>> \o lower(Tail(w))

\* generate_keyword_username on a non-empty list
generate_keyword_username(keywords) ==
    LET bases == IF Len(keywords) = 1 THEN {keywords[1]}
                 ELSE { keywords[q[1]] \o capitalize(keywords[q[2]]) :
                          q \in { r \in (DOMAIN keywords) \X (DOMAIN keywords) :
                                    r[1] # r[2] } }
    IN  { b \o IntToStr(n) : b \in bases, n \in randint(10, 99) }

GodTok == <<"{","g","o","d","}">>

mythology_patterns ==
    << GodTok,
       <<"T","h","e">> \o GodTok,
       GodTok \o <<"_">> \o NumTok,
       GodTok \o <<"T","h","e","G","r","e","a","t">> >>

\* The pantheon generate_mythology_username settles on: a key, or "" for
\* "not pantheon" (None, or an empty key)
chosen_pantheons(pantheon) ==
    IF pantheon = "random" \/ pantheon \notin DOMAIN config.mythology
    THEN IF DOMAIN config.mythology = {} THEN {""}
         ELSE DOMAIN config.mythology
    ELSE {pantheon}

mythology_names(p) ==
    IF p \in DOMAIN config.mythology THEN config.mythology[p] ELSE << >>

generate_mythology_username(pantheon) ==
    UNION {
        IF p = ""
        THEN { <<"L","e","g","e","n","d">> \o IntToStr(n) : n \in randint(1, 99) }
        ELSE IF Len(mythology_names(p)) = 0
        THEN { <<"Z","e","u","s">> \o IntToStr(n) : n \in randint(1, 99) }
        ELSE { Replace(Replace(mythology_patterns[k], GodTok,
                               mythology_names(p)[g]),
                       NumTok, IntToStr(n)) :
                 g \in DOMAIN mythology_names(p),
                 k \in DOMAIN mythology_patterns,
                 n \in randint(1, 99) }
      : p \in chosen_pantheons(pantheon) }

\* str.strip and str.split on whitespace
RECURSIVE lstrip(_)
lstrip(t) == IF Len(t) > 0 /\ isspace(t[1]) THEN lstrip(Tail(t)) ELSE t

RECURSIVE rstrip(_)
rstrip(t) ==
    IF Len(t) > 0 /\ isspace(t[Len(t)]) THEN rstrip(SubSeq(t, 1, Len(t) - 1))
    ELSE t

strip(t) == rstrip(lstrip(t))

RECURSIVE FirstWordLen(_)
FirstWordLen(t) ==
    IF Len(t) = 0 \/ isspace(t[1]) THEN 0 ELSE 1 + FirstWordLen(Tail(t))

RECURSIVE split(_)
split(t) ==
    LET u == lstrip(t)
    IN  IF Len(u) = 0 THEN << >>
        ELSE <<SubSeq(u, 1, FirstWordLen(u))>>
             \o split(SubSeq(u, FirstWordLen(u) + 1, Len(u)))

\* "not full_name or not full_name.strip()"
realname_is_empty(full_name) ==
    Len(full_name) = 0 \/ Len(strip(full_name)) = 0

realname_single_patterns(name) ==
    { name \o IntToStr(n) : n \in randint(10, 99) } \cup
    { <<"T","h","e">> \o name,
      name \o <<"_","O","f","f","i","c","i","a","l">>,
      <<"R","e","a","l">> \o name,
      <<"x">> \o name \o <<"x">> }

realname_full_patterns(first, last) ==
    LET fi == <<upper_char(first[1])>>
        li == <<upper_char(last[1])>>
    IN  { first \o last,
          first \o Slice(last, 0, 3),
          Slice(first, 0, 3) \o last,
          first \o <<"_">> \o last,
          <<"T","h","e">> \o first \o <<"_">> \o li,
          lower(first) \o <<".">> \o lower(last),
          Slice(first, 0, 2) \o Slice(last, 0, 4) } \cup
        { fi \o <<".">> \o last \o IntToStr(n) : n \in randint(1, 99) } \cup
        { first \o li \o IntToStr(n) : n \in randint(10, 99) } \cup
        { fi \o li \o <<"_">> \o IntToStr(n) : n \in randint(100, 999) } \cup
        { last \o Slice(first, 0, 2) \o IntToStr(n) : n \in randint(1, 99) } \cup
        { Slice(last, 0, 3) \o Slice(first, 0, 3) \o <<"_">> \o IntToStr(n) :
            n \in randint(10, 99) }

\* generate_realname_username on a name that is not empty
generate_realname_username(full_name) ==
    LET parts == split(strip(full_name))
    IN  IF Len(parts) = 1 THEN realname_single_patterns(parts[1])
        ELSE realname_full_patterns(parts[1], parts[Len(parts)])

(***************************************************************************)
(* modifiers.py: the modifiers.  One that draws at random is the set of    *)
(* the strings it can return.                                              *)
(***************************************************************************)
\* leet_map.get(char, char), then random.choice when the entry is a list
leet_substitutions(c) ==
    IF c \in DOMAIN config.leet_map
    THEN LET e == config.leet_map[c]
         IN  IF e.is_list THEN Range(e.choices) ELSE {e.choices[1]}
    ELSE {<<c>>}

RECURSIVE apply_leet_speak(_)
apply_leet_speak(text) ==
    IF Len(text) = 0 THEN {<< >>}
    ELSE {h \o t : h \in leet_substitutions(text[1]),
                   t \in apply_leet_speak(Tail(text))}

\* random.choice of an empty substitution list raises IndexError
apply_leet_speak_raises(text) ==
    \E i \in DOMAIN text : leet_substitutions(text[i]) = {}

apply_prefix_suffix(u) ==
    LET prefixed == {u} \cup
            {config.prefixes[i] \o <<"_">> \o u : i \in DOMAIN config.prefixes}
    IN  UNION { {v} \cup
                {v \o <<"_">> \o config.suffixes[j] : j \in DOMAIN config.suffixes}
              : v \in prefixed }

\* get_config_value('special_chars', "!@#$%^&*"): AppConfig has no such
\* field, so the default is what the lookup returns
special_chars == <<"!","@","#","$","%","^","&","*">>

apply_special_chars(u) ==
    IF Len(u) = 0 \/ Len(special_chars) = 0 THEN {u}
    ELSE {SubSeq(u, 1, pos) \o <<special_chars[k]>> \o SubSeq(u, pos + 1, Len(u))
            : pos \in 0..Len(u), k \in DOMAIN special_chars}

NotDigit(c) == ~isdigit(c)

strip_numbers(u) == SelectSeq(u, NotDigit)

\* random.choices('0123456789', k=padding)
DigitStrings(k) == [1..k -> Range(DigitChars)]

\* A slip: a short handle is returned as it is
enforce_length_without_padding(u, length) ==
    IF length <= 0 THEN {u}
    ELSE IF Len(u) > length THEN {SubSeq(u, 1, length)}
    ELSE {u}

enforce_length(u, length) ==
    IF length <= 0 THEN {u}
    ELSE IF Len(u) > length THEN {SubSeq(u, 1, length)}
    ELSE IF Len(u) < length
         THEN {u \o d : d \in DigitStrings(length - Len(u))}
         ELSE {u}

RECURSIVE alt_caps_from(_, _)
alt_caps_from(u, letter_index) ==
    IF Len(u) = 0 THEN << >>
    ELSE IF isalpha(u[1])
         THEN << IF letter_index % 2 = 0 THEN upper_char(u[1])
                                         ELSE lower_char(u[1]) >>
              \o alt_caps_from(Tail(u), letter_index + 1)
         ELSE << u[1] >> \o alt_caps_from(Tail(u), letter_index)

apply_alt_caps(u) == alt_caps_from(u, 0)

(***************************************************************************)
(* cli.py: process_username, one action for each of its statements         *)
(***************************************************************************)
\* The statements of process_username in the order they run
process_order_special_before_strip ==
    << "pu_timestamp", "pu_leet", "pu_prefix_suffix", "pu_special_chars",
       "pu_no_numbers", "pu_alt_caps", "pu_length" >>

process_order ==
    << "pu_timestamp", "pu_leet", "pu_prefix_suffix", "pu_no_numbers",
       "pu_special_chars", "pu_alt_caps", "pu_length" >>

statement_after(p) ==
    LET i == IndexIn(p, process_order)
    IN  IF i = Len(process_order) THEN "pu_return" ELSE process_order[i + 1]

\* The statement's modifier is called and returns r
pu_call(name, outcomes) ==
    /\ \E r \in outcomes :
          /\ username' = r
          /\ trace' = Append(trace, r)
    /\ applied' = Append(applied, name)
    /\ pc' = statement_after(pc)
    /\ UNCHANGED raised

\* The statement's condition is false
pu_skip ==
    /\ trace' = Append(trace, username)
    /\ pc' = statement_after(pc)
    /\ UNCHANGED <<username, applied, raised>>

pu_frame ==
    UNCHANGED <<envVars, rhyme_cache, caller, args, generator, base, gfpVars,
                result, anagramVars>>

\* A slip: the early return is missing
returns_unmodified_never(a) == FALSE

\* "if args.timestamp: return username"
returns_unmodified(a) == a.timestamp

pu_timestamp ==
    /\ pc = "pu_timestamp"
    /\ pc' = IF returns_unmodified(args) THEN "finished" ELSE statement_after(pc)
    /\ UNCHANGED <<processVars, raised>>
    /\ pu_frame

pu_leet ==
    /\ pc = "pu_leet"
    /\ IF args.use_leet
       THEN IF apply_leet_speak_raises(username)
            THEN /\ raised' = "IndexError"
                 /\ pc' = "raised"
                 /\ applied' = Append(applied, "apply_leet_speak")
                 /\ UNCHANGED <<username, trace>>
            ELSE pu_call("apply_leet_speak", apply_leet_speak(username))
       ELSE pu_skip
    /\ pu_frame

pu_prefix_suffix ==
    /\ pc = "pu_prefix_suffix"
    /\ IF args.use_prefix_suffix
       THEN pu_call("apply_prefix_suffix", apply_prefix_suffix(username))
       ELSE pu_skip
    /\ pu_frame

pu_no_numbers ==
    /\ pc = "pu_no_numbers"
    /\ IF args.no_numbers
       THEN pu_call("strip_numbers", {strip_numbers(username)})
       ELSE pu_skip
    /\ pu_frame

pu_special_chars ==
    /\ pc = "pu_special_chars"
    /\ IF args.use_special_chars
       THEN pu_call("apply_special_chars", apply_special_chars(username))
       ELSE pu_skip
    /\ pu_frame

pu_alt_caps ==
    /\ pc = "pu_alt_caps"
    /\ IF args.alt_caps
       THEN pu_call("apply_alt_caps", {apply_alt_caps(username)})
       ELSE pu_skip
    /\ pu_frame

pu_length ==
    /\ pc = "pu_length"
    /\ IF args.length > 0
       THEN pu_call("enforce_length", enforce_length(username, args.length))
       ELSE pu_skip
    /\ pu_frame

\* return username
pu_return ==
    /\ pc = "pu_return"
    /\ pc' = "finished"
    /\ UNCHANGED <<processVars, raised>>
    /\ pu_frame

(***************************************************************************)
(* core.py: generate_base_username and the generators it calls             *)
(***************************************************************************)
\* Truth of an Optional key, and of an Optional string or list
truthy_key(o) == ~IsNone(o) /\ o[1] # ""

truthy_seq(o) == ~IsNone(o) /\ Len(o[1]) > 0

\* getattr(args, name, default)
getattr(a, name, default) == IF name \in DOMAIN a THEN a[name] ELSE default

make_context(a) ==
    [ only_nouns |-> getattr(a, "only_nouns", FALSE),
      only_adjectives |-> getattr(a, "only_adjectives", FALSE),
      alliteration |-> getattr(a, "alliteration", FALSE),
      rhyme |-> getattr(a, "rhyme", FALSE),
      separator |-> getattr(a, "separator", None) ]

\* The branch of the if/elif chain that runs
selected_mode(a) ==
    IF truthy_key(a.vibe) /\ truthy_key(a.profession) THEN "combined"
    ELSE IF a.timestamp THEN "timestamp"
    ELSE IF a.retro THEN "retro"
    ELSE IF truthy_key(a.vibe) THEN "vibe"
    ELSE IF truthy_key(a.profession) THEN "profession"
    ELSE IF truthy_seq(a.keywords) THEN "keywords"
    ELSE IF truthy_key(getattr(a, "mythology", None)) THEN "mythology"
    ELSE IF truthy_seq(a.realname) THEN "realname"
    ELSE IF truthy_seq(a.anagram) THEN "anagram"
    ELSE "standard"

gbu_frame == UNCHANGED <<envVars, rhyme_cache, args, result>>

\* The generator returns h; generate_and_print hands it to process_username
gbu_return(name, handles) ==
    /\ \E h \in handles :
          /\ base' = h
          /\ username' = h
          /\ trace' = <<h>>
    /\ generator' = Append(generator, name)
    /\ applied' = << >>
    /\ pc' = process_order[1]
    /\ UNCHANGED <<raised, caller, gfpVars, anagramVars>>

gbu_raise(name, exception) ==
    /\ generator' = Append(generator, name)
    /\ raised' = exception
    /\ pc' = "raised"
    /\ UNCHANGED <<base, caller, gfpVars, anagramVars, processVars>>

\* The generator calls generate_from_pattern(adjs, nns, context)
gbu_call_gfp(name, adjs, nns) ==
    /\ generator' = Append(generator, name)
    /\ adjectives' = adjs
    /\ nouns' = nns
    /\ context' = make_context(args)
    /\ caller' = "generate_base_username"
    /\ pc' = "gfp_pattern"
    /\ UNCHANGED <<raised, base, pattern, adj, noun, attempts, warned,
                   prior_valid, adj_draws, noun_draws, anagramVars,
                   processVars>>

\* data['adjectives'], data['nouns'] on a pool that lacks the key
pool_lacks_key(data) ==
    "adjectives" \notin DOMAIN data \/ "nouns" \notin DOMAIN data

gbu_combined ==
    /\ pc = "dispatch" /\ selected_mode(args) = "combined"
    /\ LET v == args.vibe[1]
           p == args.profession[1]
       IN  IF v \notin DOMAIN config.vibes \/ p \notin DOMAIN config.professions
           THEN gbu_raise("generate_combined_username", "ValidationError")
           ELSE \E vibe_first \in BOOLEAN :
                  LET ad == IF vibe_first THEN config.vibes[v]
                                          ELSE config.professions[p]
                      nd == IF vibe_first THEN config.professions[p]
                                          ELSE config.vibes[v]
                  IN  IF "adjectives" \notin DOMAIN ad \/ "nouns" \notin DOMAIN nd
                      THEN gbu_raise("generate_combined_username", "KeyError")
                      ELSE gbu_call_gfp("generate_combined_username",
                                        ad.adjectives, nd.nouns)
    /\ gbu_frame

gbu_timestamp ==
    /\ pc = "dispatch" /\ selected_mode(args) = "timestamp"
    /\ gbu_return("generate_timestamp_username",
                  generate_timestamp_username(args.base_word))
    /\ gbu_frame

\* retro_conf is the RetroWords model of AppConfig, which has no method get
gbu_retro ==
    /\ pc = "dispatch" /\ selected_mode(args) = "retro"
    /\ gbu_raise("generate_retro_username", "AttributeError")
    /\ gbu_frame

gbu_vibe ==
    /\ pc = "dispatch" /\ selected_mode(args) = "vibe"
    /\ LET v == args.vibe[1]
       IN  IF v \notin DOMAIN config.vibes
           THEN gbu_raise("generate_vibe_username", "ValidationError")
           ELSE IF pool_lacks_key(config.vibes[v])
           THEN gbu_raise("generate_vibe_username", "KeyError")
           ELSE gbu_call_gfp("generate_vibe_username",
                             config.vibes[v].adjectives, config.vibes[v].nouns)
    /\ gbu_frame

gbu_profession ==
    /\ pc = "dispatch" /\ selected_mode(args) = "profession"
    /\ LET p == args.profession[1]
       IN  IF p \notin DOMAIN config.professions
           THEN gbu_raise("generate_profession_username", "ValidationError")
           ELSE IF pool_lacks_key(config.professions[p])
           THEN gbu_raise("generate_profession_username", "KeyError")
           ELSE gbu_call_gfp("generate_profession_username",
                             config.professions[p].adjectives,
                             config.professions[p].nouns)
    /\ gbu_frame

gbu_keywords ==
    /\ pc = "dispatch" /\ selected_mode(args) = "keywords"
    /\ IF Len(args.keywords[1]) = 0
       THEN gbu_raise("generate_keyword_username", "ValidationError")
       ELSE gbu_return("generate_keyword_username",
                       generate_keyword_username(args.keywords[1]))
    /\ gbu_frame

gbu_mythology ==
    /\ pc = "dispatch" /\ selected_mode(args) = "mythology"
    /\ gbu_return("generate_mythology_username",
                  generate_mythology_username(args.mythology[1]))
    /\ gbu_frame

gbu_realname ==
    /\ pc = "dispatch" /\ selected_mode(args) = "realname"
    /\ IF realname_is_empty(args.realname[1])
       THEN gbu_raise("generate_realname_username", "ValidationError")
       ELSE gbu_return("generate_realname_username",
                       generate_realname_username(args.realname[1]))
    /\ gbu_frame

gbu_standard ==
    /\ pc = "dispatch" /\ selected_mode(args) = "standard"
    /\ gbu_return("generate_standard_username",
                  generate_standard_username(args.base_word))
    /\ gbu_frame

\* generate_from_pattern returns to the generator, which returns its value
gfp_return ==
    /\ pc = "returned" /\ caller = "generate_base_username"
    /\ base' = result
    /\ username' = result
    /\ trace' = <<result>>
    /\ applied' = << >>
    /\ pc' = process_order[1]
    /\ UNCHANGED <<envVars, rhyme_cache, caller, raised, args, generator,
                   gfpVars, result, anagramVars>>

(***************************************************************************)
(* core.py: generate_anagram_username                                      *)
(***************************************************************************)
max_shuffles == 20

\* random.shuffle: every order of the list
shuffle(l) == { [i \in DOMAIN l |-> l[f[i]]] : f \in Permutations(DOMAIN l) }

\* A slip: the comparison without .lower()
same_order_with_case(a, b) == a = b

same_order(a, b) == lower(a) = lower(b)

\* the chunked capitalisation
chunk_case(anagram, chunk_size) ==
    [ i \in DOMAIN anagram |->
        IF (i - 1) % chunk_size = 0 THEN upper_char(anagram[i])
                                    ELSE lower_char(anagram[i]) ]

min(a, b) == IF a < b THEN a ELSE b

\* the filter and the length test, then the first iteration is due
gbu_anagram ==
    /\ pc = "dispatch" /\ selected_mode(args) = "anagram"
    /\ LET ls == SelectSeq(args.anagram[1], isalpha)
       IN  IF Len(ls) < 3
           THEN /\ gbu_raise("generate_anagram_username", "ValidationError")
           ELSE /\ generator' = Append(generator, "generate_anagram_username")
                /\ letters_only' = ls
                /\ shuffled' = ls
                /\ shuffles' = 0
                /\ pc' = "anagram_shuffle"
                /\ UNCHANGED <<raised, base, caller, gfpVars, processVars>>
    /\ gbu_frame

\* one iteration of "for _ in range(max_shuffles)"
anagram_shuffle ==
    /\ pc = "anagram_shuffle"
    /\ \E s \in shuffle(shuffled) :
          /\ shuffled' = s
          /\ shuffles' = shuffles + 1
          /\ pc' = IF ~same_order(s, letters_only) \/ shuffles + 1 >= max_shuffles
                   THEN "anagram_case" ELSE "anagram_shuffle"
    /\ UNCHANGED <<envVars, rhyme_cache, caller, raised, args, generator, base,
                   gfpVars, result, letters_only, processVars>>

\* the capitalisation, the optional number, the return
anagram_finish ==
    /\ pc = "anagram_case"
    /\ \E chunk_size \in randint(3, min(5, Len(shuffled))), suffix \in BOOLEAN :
          LET final == chunk_case(shuffled, chunk_size)
          IN  \E h \in IF suffix THEN { final \o IntToStr(n) : n \in randint(1, 99) }
                                 ELSE { final } :
                 /\ base' = h
                 /\ username' = h
                 /\ trace' = <<h>>
    /\ applied' = << >>
    /\ pc' = process_order[1]
    /\ UNCHANGED <<envVars, rhyme_cache, caller, raised, args, generator,
                   gfpVars, result, anagramVars>>

(***************************************************************************)
(* checker.py: the availability prober.  check_username_availability runs  *)
(* in the calling thread; the threads of its ThreadPoolExecutor run        *)
(* check_individual_platform, one call for each submitted future.          *)
(***************************************************************************)
NOT_FOUND_KEYWORDS ==
    << <<"4","0","4">>,
       <<"n","o","t"," ","f","o","u","n","d">>,
       <<"d","o","e","s","n","'","t"," ","e","x","i","s","t">>,
       <<"c","o","u","l","d","n","'","t"," ","f","i","n","d">>,
       <<"p","a","g","e"," ","n","o","t"," ","f","o","u","n","d">>,
       <<"u","n","a","v","a","i","l","a","b","l","e">>,
       <<"s","i","t","e"," ","n","o","t"," ","f","o","u","n","d">>,
       <<"n","o","b","o","d","y"," ","o","n"," ","r","e","d","d","i",
         "t"," ","g","o","e","s"," ","b","y"," ","t","h","a",
         "t"," ","n","a","m","e">>,
       <<"u","s","e","r"," ","n","o","t"," ","f","o","u","n","d">> >>

UsernameTok == <<"{","u","s","e","r","n","a","m","e","}">>

\* The replacement fields of a format string whose braces are balanced
RECURSIVE format_fields(_)
format_fields(s) ==
    IF s = << >> THEN << >>
    ELSE IF s[1] = "{"
         THEN LET close == CHOOSE i \in 2..Len(s) :
                              s[i] = "}" /\ \A j \in 2..(i - 1) : s[j] # "}"
              IN  <<SubSeq(s, 2, close - 1)>>
                      \o format_fields(SubSeq(s, close + 1, Len(s)))
         ELSE format_fields(Tail(s))

\* url_template.format(username=username): the exception it raises, "none"
\* when every field is {username}
format_raises(url_template) ==
    LET fields == format_fields(url_template)
    IN  IF \E i \in DOMAIN fields : fields[i] = << >> THEN "IndexError"
        ELSE IF \E i \in DOMAIN fields : fields[i] # SubSeq(UsernameTok, 2, 9)
             THEN "KeyError"
             ELSE "none"

format(url_template, name) == Replace(url_template, UsernameTok, name)

\* What session.get produces: a response, or a requests.RequestException
\* (connection error, timeout after 5 seconds, malformed response)
Response(code, text, url) ==
    [exception |-> "none", status_code |-> code, text |-> text, url |-> url]

RequestException ==
    [exception |-> "RequestException", status_code |-> 0, text |-> << >>,
     url |-> << >>]

\* The if/elif chain of check_individual_platform on a response, with 200
\* tested before the body and the URL
status_of_code_first(response) ==
    LET content_lower == lower(response.text)
    IN  IF response.status_code = 404 THEN "AVAILABLE"
        ELSE IF response.status_code = 200 THEN "TAKEN"
        ELSE IF \E k \in DOMAIN NOT_FOUND_KEYWORDS :
                    Contains(content_lower, NOT_FOUND_KEYWORDS[k])
             THEN "AVAILABLE"
        ELSE IF Contains(lower(response.url), <<"l","o","g","i","n">>)
             THEN "BLOCKED/WAF"
        ELSE IF response.status_code \in {403, 429} THEN "BLOCKED/WAF"
        ELSE "ERROR:" \o ToString(response.status_code)

\* The if/elif chain of check_individual_platform on a response
status_of(response) ==
    LET content_lower == lower(response.text)
    IN  IF response.status_code = 404 THEN "AVAILABLE"
        ELSE IF \E k \in DOMAIN NOT_FOUND_KEYWORDS :
                    Contains(content_lower, NOT_FOUND_KEYWORDS[k])
             THEN "AVAILABLE"
        ELSE IF \/ Contains(lower(response.url), <<"l","o","g","i","n">>)
                \/ Contains(lower(response.url),
                            <<"a","c","c","o","u","n","t","s","/","l","o","g","i","n">>)
             THEN "BLOCKED/WAF"
        ELSE IF response.status_code = 200 THEN "TAKEN"
        ELSE IF response.status_code \in {403, 429} THEN "BLOCKED/WAF"
        ELSE "ERROR:" \o ToString(response.status_code)

\* The try statement of check_individual_platform without its except clause
check_individual_platform_uncaught(platform, outcome) ==
    IF outcome.exception = "RequestException"
    THEN [raised |-> "RequestException", value |-> None]
    ELSE [raised |-> "none", value |-> <<platform, status_of(outcome)>>]

\* The try statement of check_individual_platform, given what session.get
\* produced: the exception that escapes and the tuple returned
check_individual_platform(platform, outcome) ==
    IF outcome.exception = "RequestException"
    THEN [raised |-> "none", value |-> <<platform, "TIMEOUT/FAIL">>]
    ELSE [raised |-> "none", value |-> <<platform, status_of(outcome)>>]

\* get_config_value("check_targets", {}): a dict is the sequence of its
\* items, in insertion order
all_targets ==
    IF IsNone(config.check_targets) THEN << >> ELSE config.check_targets[1]

select_targets(targets_map, selection) ==
    IF ~IsNone(selection) /\ selection[1] # << >>
    THEN SelectSeq(targets_map, LAMBDA item : item[1] \in Range(selection[1]))
    ELSE targets_map

\* max_workers of the executor, without the cap
max_workers_uncapped(selected) == Len(selected)

max_workers_of(selected) == min(Len(selected), 10)

\* executor.submit(check_individual_platform, p, url, username, session)
Future(p, url) ==
    [platform |-> p, url_template |-> url, state |-> "queued", url |-> << >>,
     gets |-> 0, value |-> None, exception |-> "none"]

finished(f) == f.state \in {"done", "failed"}

\* The work items the pool's threads are executing
in_flight(fs) == Cardinality({i \in DOMAIN fs : fs[i].state = "running"})

probe_frame ==
    UNCHANGED <<config, pronouncing, rhyme_cache, pc, caller, args, generator,
                base, gfpVars, result, anagramVars, processVars, platforms,
                web, mainVars, rhyme_calls>>

\* all_targets = ...; if platforms: ... else: targets = all_targets
cua_select ==
    /\ checker = "select"
    /\ targets' = select_targets(all_targets, platforms)
    /\ checker' = "executor"
    /\ UNCHANGED <<raised, max_workers, futures, results, collected,
                   out_of_order>>
    /\ probe_frame

\* results = {}; ThreadPoolExecutor(max_workers=min(len(targets), 10)), which
\* raises ValueError unless max_workers is positive
cua_executor ==
    /\ checker = "executor"
    /\ results' = << >>
    /\ max_workers' = max_workers_of(targets)
    /\ IF max_workers' <= 0
       THEN raised' = "ValueError" /\ checker' = "raised"
       ELSE checker' = "submit" /\ UNCHANGED raised
    /\ UNCHANGED <<targets, futures, collected, out_of_order>>
    /\ probe_frame

\* One iteration of the list comprehension that submits the probes
cua_submit ==
    /\ checker = "submit"
    /\ LET item == targets[Len(futures) + 1]
       IN  futures' = Append(futures, Future(item[1], item[2]))
    /\ checker' = IF Len(futures') = Len(targets) THEN "collect" ELSE "submit"
    /\ UNCHANGED <<raised, targets, max_workers, results, collected,
                   out_of_order>>
    /\ probe_frame

\* A thread of the pool takes the oldest queued work item and runs
\* check_individual_platform up to session.get
worker_run(i) ==
    /\ futures[i].state = "queued"
    /\ \A j \in 1..(i - 1) : futures[j].state # "queued"
    /\ in_flight(futures) < max_workers
    /\ LET error == format_raises(futures[i].url_template)
       IN  IF error # "none"
           THEN /\ futures' = [futures EXCEPT ![i].state = "failed",
                                               ![i].exception = error]
                /\ out_of_order' =
                      (out_of_order \/ \E j \in 1..(i - 1) : ~finished(futures[j]))
           ELSE /\ futures' = [futures EXCEPT
                                 ![i].state = "running",
                                 ![i].gets = @ + 1,
                                 ![i].url = format(futures[i].url_template, username)]
                /\ UNCHANGED out_of_order
    /\ UNCHANGED <<raised, checker, targets, max_workers, results, collected>>
    /\ probe_frame

\* session.get returns or raises, and check_individual_platform finishes
worker_done(i) ==
    /\ futures[i].state = "running"
    /\ LET call == check_individual_platform(futures[i].platform,
                                             web[futures[i].platform])
       IN  futures' = IF call.raised = "none"
                      THEN [futures EXCEPT ![i].state = "done",
                                           ![i].value = call.value]
                      ELSE [futures EXCEPT ![i].state = "failed",
                                           ![i].exception = call.raised]
    /\ out_of_order' = (out_of_order \/ \E j \in 1..(i - 1) : ~finished(futures[j]))
    /\ UNCHANGED <<raised, checker, targets, max_workers, results, collected>>
    /\ probe_frame

\* One iteration of "for future in futures": future.result() blocks until
\* the future has finished and raises what the probe raised
cua_collect ==
    /\ checker = "collect"
    /\ LET future == futures[collected + 1]
       IN  /\ finished(future)
           /\ IF future.state = "failed"
              THEN /\ checker' = "unwinding"
                   /\ UNCHANGED <<results, collected>>
              ELSE /\ results' = (future.value[1] :> future.value[2]) @@ results
                   /\ collected' = collected + 1
                   /\ checker' = IF collected' = Len(futures) THEN "shutdown"
                                                              ELSE "collect"
    /\ UNCHANGED <<raised, targets, max_workers, futures, out_of_order>>
    /\ probe_frame

\* The end of the with statement: shutdown(wait=True) joins the threads, then
\* the function returns results or the pending exception propagates
cua_exit ==
    /\ checker \in {"shutdown", "unwinding"}
    /\ \A i \in DOMAIN futures : finished(futures[i])
    /\ IF checker = "unwinding"
       THEN raised' = futures[collected + 1].exception /\ checker' = "raised"
       ELSE checker' = "returned" /\ UNCHANGED raised
    /\ UNCHANGED <<targets, max_workers, futures, results, collected,
                   out_of_order>>
    /\ probe_frame

(***************************************************************************)
(* Configurations and word pools the model runs on                         *)
(***************************************************************************)
Big == <<"B","i","g">>

Fat == <<"F","a","t">>

Bat == <<"B","a","t">>

Fig == <<"F","i","g">>

Fiat == <<"F","i","a","t">>

Blue == <<"B","l","u","e">>

Shoe == <<"S","h","o","e">>

\* (Big,Bat) and (Fat,Fig) alliterate, (Big,Fig) and (Fat,Bat) rhyme,
\* (Fat,Fiat) does both; (Blue,Shoe) rhymes only phonetically and never
\* alliterates.
PoolPairs ==
    { << <<Big, Fat>>, <<Bat, Fig, Fiat>> >>,
      << <<Blue>>, <<Shoe>> >>,
      << <<Big, Fat>>, << >> >>,
      << << >>, <<Shoe>> >> }

Separators == { None, Some(<<"-">>) }

Contexts ==
    [ only_nouns : BOOLEAN, only_adjectives : BOOLEAN, alliteration : BOOLEAN,
      rhyme : BOOLEAN, separator : Separators ]

\* The contexts of the sampler runs: every constraint combination, and
\* every structure filter and separator where no constraint is requested.
SamplerContexts ==
    { c \in Contexts :
        (c.alliteration \/ c.rhyme) =>
            (~c.only_nouns /\ ~c.only_adjectives /\ IsNone(c.separator)) }

\* GenerationContext() of a call without context
default_context ==
    [ only_nouns |-> FALSE, only_adjectives |-> FALSE, alliteration |-> FALSE,
      rhyme |-> FALSE, separator |-> None ]

PatternLists ==
    { << AdjTok \o <<"_">> \o NounTok \o NumTok, NounTok \o <<"_">> \o NumTok >>,
      << >> }

\* str entries and list entries of leet_map
LeetStr(v) == [is_list |-> FALSE, choices |-> <<v>>]

LeetList(vs) == [is_list |-> TRUE, choices |-> vs]

Zeus == <<"Z","e","u","s">>

Pool(adjs, nns) == [adjectives |-> adjs, nouns |-> nns]

BaseConfig ==
    [ patterns |-> << AdjTok \o <<"_">> \o NounTok \o NumTok,
                      NounTok \o <<"_">> \o NumTok >>,
      leet_map |-> ("a" :> LeetStr(<<"4">>)) @@
                   ("e" :> LeetList(<< <<"3">>, <<"E">> >>)),
      prefixes |-> << <<"X">> >>,
      suffixes |-> << <<"Z">> >>,
      retro_words |-> Pool(<< <<"R","e","t","r","o">> >>, << <<"U","s","e","r">> >>),
      vibes |-> ("tech" :> Pool(<<Big, Fat>>, <<Bat>>)) @@
                ("hollow" :> Pool(<< >>, <<Bat>>)) @@
                ("legacy" :> [nouns |-> <<Bat>>]),
      professions |-> ("dev" :> Pool(<<Blue>>, <<Shoe>>)),
      mythology |-> ("greek" :> <<Zeus>>) @@ ("void" :> << >>),
      check_targets |-> None ]

\* A document with empty lists: each is accepted by AppConfig
EmptyListsConfig ==
    [ patterns |-> << >>,
      leet_map |-> ("a" :> LeetList(<< >>)),
      prefixes |-> << >>,
      suffixes |-> << >>,
      retro_words |-> Pool(<< >>, << >>),
      vibes |-> ("tech" :> Pool(<<Big>>, <<Bat>>)),
      professions |-> ("dev" :> Pool(<<Blue>>, <<Shoe>>)),
      mythology |-> << >>,
      check_targets |-> None ]

SamplerConfigs == { [BaseConfig EXCEPT !.patterns = ps] : ps \in PatternLists }

(***************************************************************************)
(* The sampler alone: generate_from_pattern called with pools and context  *)
(***************************************************************************)
NoRequest == args = << >> /\ generator = << >> /\ base = << >>

AnagramIdle == letters_only = << >> /\ shuffled = << >> /\ shuffles = 0

ProcessIdle == username = << >> /\ applied = << >> /\ trace = << >>

MainIdle ==
    /\ generated_list = << >> /\ iteration = 0 /\ usernames = << >>
    /\ checked = 0 /\ document = None /\ printed = << >> /\ reported = << >>
    /\ rhyme_calls = << >>

ProberIdle ==
    /\ platforms = None /\ targets = << >> /\ results = << >>
    /\ futures = << >> /\ max_workers = 0 /\ collected = 0
    /\ checker = "idle" /\ web = << >> /\ out_of_order = FALSE

InitSampler ==
    /\ config \in SamplerConfigs
    /\ pronouncing \in BOOLEAN
    /\ rhyme_cache = << >>
    /\ pc = "gfp_pattern"
    /\ caller = "direct"
    /\ raised = "none"
    /\ \E pp \in PoolPairs : adjectives = pp[1] /\ nouns = pp[2]
    /\ context \in SamplerContexts
    /\ pattern = << >>
    /\ adj = << >>
    /\ noun = << >>
    /\ attempts = 0
    /\ warned = FALSE
    /\ result = << >>
    /\ prior_valid = FALSE
    /\ adj_draws = 0
    /\ noun_draws = 0
    /\ NoRequest
    /\ AnagramIdle
    /\ ProcessIdle
    /\ MainIdle
    /\ ProberIdle

NextSampler ==
    \/ gfp_choose_pattern
    \/ gfp_attempt
    \/ gfp_exhausted
    \/ gfp_construct

SpecSampler == InitSampler /\ [][NextSampler]_vars


(***************************************************************************)
(* Claims about the sampler                                                *)
(***************************************************************************)
\* What the claims mean by a pair satisfying every requested constraint
AllRequested(ctx, a, n) ==
    /\ ctx.alliteration => is_alliterative(a, n)
    /\ ctx.rhyme => is_rhyming(a, n, pronouncing, << >>)

SamplerOver == pc \in {"returned", "raised"}

BuiltFrom(a, n) ==
    \E k \in randint(1, 999) :
        result = construct(pattern, context, a, n, IntToStr(k))

\* C1: generate_from_pattern with non-empty pools and alliteration and/or
\* rhyme requested makes at most 100 draws and returns a handle without
\* raising; when none of the 100 drawn pairs satisfies the constraints the
\* 100th pair is the one used and a warning is emitted.
C1_ReturnsWithin100 ==
    (Len(adjectives) > 0 /\ Len(nouns) > 0 /\ need_check(context)) =>
        /\ raised = "none"
        /\ adj_draws <= 100 /\ noun_draws <= 100
        /\ (pc = "returned" /\ ~prior_valid /\ ~AllRequested(context, adj, noun))
              => (adj_draws = 100 /\ warned /\ BuiltFrom(adj, noun))

\* C1, the part the retry loop keeps whatever the pattern list: at most 100
\* draws, and an exhausted loop uses the 100th pair and warns.
C1_LoopKeepsBound ==
    /\ adj_draws <= 100 /\ noun_draws <= 100
    /\ (pc = "returned" /\ need_check(context) /\ ~prior_valid
          /\ ~AllRequested(context, adj, noun))
         => (adj_draws = 100 /\ warned /\ BuiltFrom(adj, noun))

C1_Exhausted ==
    /\ pc = "returned" /\ need_check(context) /\ attempts = 100 /\ warned
    /\ ~AllRequested(context, adj, noun)

\* C2: when alliteration and/or rhyme is requested, every attempt draws both
\* an adjective and a noun, no pair is drawn after one that satisfies all the
\* requested constraints, a pair accepted before the ceiling satisfies all of
\* them, and the handle is built from the last pair drawn.
C2_FirstSatisfyingPair ==
    (need_check(context) /\ raised = "none") =>
        /\ adj_draws = attempts /\ noun_draws = attempts
        /\ ~prior_valid
        /\ (pc \in {"gfp_construct", "returned"} /\ attempts < 100)
              => AllRequested(context, adj, noun)
        /\ pc = "returned" => BuiltFrom(adj, noun)

C2_AcceptedBoth ==
    /\ pc = "returned" /\ context.alliteration /\ context.rhyme
    /\ attempts > 2 /\ attempts < 100
    /\ adj = Fat /\ noun = Fiat


(***************************************************************************)
(* The modifier chain alone: process_username called with a handle         *)
(***************************************************************************)
Handles == { <<"a","1">>, <<"B","e">>, << >> }

Lengths == { 0, 3 }

ModifierFlags ==
    [ timestamp : BOOLEAN, use_leet : BOOLEAN, use_prefix_suffix : BOOLEAN,
      no_numbers : BOOLEAN, use_special_chars : BOOLEAN, alt_caps : BOOLEAN,
      length : Lengths ]

SamplerIdle ==
    /\ rhyme_cache = << >> /\ caller = "none"
    /\ adjectives = << >> /\ nouns = << >> /\ context = default_context
    /\ pattern = << >> /\ adj = << >> /\ noun = << >> /\ attempts = 0
    /\ warned = FALSE /\ result = << >> /\ prior_valid = FALSE
    /\ adj_draws = 0 /\ noun_draws = 0

InitModifiers ==
    /\ config \in {BaseConfig, EmptyListsConfig}
    /\ pronouncing = FALSE
    /\ pc = process_order[1]
    /\ raised = "none"
    /\ args \in ModifierFlags
    /\ generator = << >>
    /\ base \in Handles
    /\ username = base
    /\ applied = << >>
    /\ trace = <<base>>
    /\ SamplerIdle
    /\ AnagramIdle
    /\ MainIdle
    /\ ProberIdle

NextModifiers ==
    \/ pu_timestamp
    \/ pu_leet
    \/ pu_prefix_suffix
    \/ pu_no_numbers
    \/ pu_special_chars
    \/ pu_alt_caps
    \/ pu_length
    \/ pu_return

SpecModifiers == InitModifiers /\ [][NextModifiers]_vars

(***************************************************************************)
(* Claims about the modifier chain                                         *)
(***************************************************************************)
ModifierOrder ==
    << "apply_leet_speak", "apply_prefix_suffix", "strip_numbers",
       "apply_special_chars", "apply_alt_caps", "enforce_length" >>

Enabled(m) ==
    CASE m = "apply_leet_speak" -> args.use_leet
      [] m = "apply_prefix_suffix" -> args.use_prefix_suffix
      [] m = "strip_numbers" -> args.no_numbers
      [] m = "apply_special_chars" -> args.use_special_chars
      [] m = "apply_alt_caps" -> args.alt_caps
      [] m = "enforce_length" -> args.length > 0

Outcomes(m, u) ==
    CASE m = "apply_leet_speak" -> apply_leet_speak(u)
      [] m = "apply_prefix_suffix" -> apply_prefix_suffix(u)
      [] m = "strip_numbers" -> {strip_numbers(u)}
      [] m = "apply_special_chars" -> apply_special_chars(u)
      [] m = "apply_alt_caps" -> {apply_alt_caps(u)}
      [] m = "enforce_length" -> enforce_length(u, args.length)

\* C3: a finished process_username of a non-timestamp request has called
\* exactly the enabled modifiers, in the order leet-speak, prefix/suffix,
\* digit-stripping, special-character insertion, alternating-case, length
\* enforcement, each on the handle the step before it left; a step whose flag
\* is off leaves the handle as it was, and with every flag off and length 0
\* the result is the input handle.
C3_FixedOrder ==
    (pc = "finished" /\ ~args.timestamp) =>
        /\ applied = SelectSeq(ModifierOrder, Enabled)
        /\ Len(trace) = 7
        /\ trace[1] = base
        /\ username = trace[7]
        /\ \A i \in 1..6 :
              IF Enabled(ModifierOrder[i])
              THEN trace[i + 1] \in Outcomes(ModifierOrder[i], trace[i])
              ELSE trace[i + 1] = trace[i]
        /\ (\A i \in 1..6 : ~Enabled(ModifierOrder[i])) => username = base

C3_AllModifiersRan ==
    /\ pc = "finished" /\ ~args.timestamp
    /\ applied = ModifierOrder
    /\ base = <<"a","1">>
    /\ username = <<"X","_","$">>


\* C13: with --no-numbers on a request that is not a timestamp request, the
\* handle process_username returns has no decimal digit, whatever the other
\* flags and the length.
C13_NoDigitInFinalHandle ==
    (pc = "finished" /\ ~args.timestamp /\ args.no_numbers) =>
        \A i \in DOMAIN username : ~isdigit(username[i])

(***************************************************************************)
(* One generation request: generate_base_username, then process_username   *)
(***************************************************************************)
user == <<"u","s","e","r">>

NoFlags ==
    [ use_leet |-> FALSE, use_prefix_suffix |-> FALSE, no_numbers |-> FALSE,
      use_special_chars |-> FALSE, alt_caps |-> FALSE, length |-> 0,
      only_nouns |-> FALSE, only_adjectives |-> FALSE ]

AllFlags ==
    [ use_leet |-> TRUE, use_prefix_suffix |-> TRUE, no_numbers |-> TRUE,
      use_special_chars |-> TRUE, alt_caps |-> TRUE, length |-> 3,
      only_nouns |-> FALSE, only_adjectives |-> FALSE ]

EveryFlags ==
    [ use_leet : BOOLEAN, use_prefix_suffix : BOOLEAN, no_numbers : BOOLEAN,
      use_special_chars : BOOLEAN, alt_caps : BOOLEAN, length : Lengths,
      only_nouns : {FALSE}, only_adjectives : {FALSE} ]

\* No strategy option given
NoMode ==
    [ vibe |-> None, profession |-> None, timestamp |-> FALSE, retro |-> FALSE,
      keywords |-> None, mythology |-> None, realname |-> None,
      anagram |-> None, base_word |-> user ]

Wolf == <<"W","o","l","f">>

\* The strategy options of the requests the model follows
Modes ==
    { NoMode,
      [NoMode EXCEPT !.timestamp = TRUE],
      [NoMode EXCEPT !.retro = TRUE],
      [NoMode EXCEPT !.timestamp = TRUE, !.vibe = Some("tech")],
      [NoMode EXCEPT !.timestamp = TRUE, !.vibe = Some("tech"),
                     !.profession = Some("dev")],
      [NoMode EXCEPT !.keywords = Some(<< >>)],
      [NoMode EXCEPT !.keywords = Some(<<Wolf>>)],
      [NoMode EXCEPT !.keywords = Some(<<Wolf, <<"i","c","e">> >>)],
      [NoMode EXCEPT !.realname = Some(<< >>)],
      [NoMode EXCEPT !.realname = Some(<<" ">>)],
      [NoMode EXCEPT !.realname = Some(<<"A","n","n">>)],
      [NoMode EXCEPT !.realname = Some(<<"A","l"," ","B","o","y","d">>)],
      [NoMode EXCEPT !.anagram = Some(<< >>)],
      [NoMode EXCEPT !.anagram = Some(<<"a","1","b">>)],
      [NoMode EXCEPT !.anagram = Some(<<"c","a","t">>)],
      [NoMode EXCEPT !.anagram = Some(<<"a","a","a">>)] }
    \cup { [NoMode EXCEPT !.vibe = Some(v)] :
             v \in {"tech", "hollow", "legacy", "nope"} }
    \cup { [NoMode EXCEPT !.profession = Some(q)] : q \in {"dev", "nope"} }
    \cup { [NoMode EXCEPT !.vibe = Some(v), !.profession = Some(q)] :
             v \in {"tech", "nope"}, q \in {"dev", "nope"} }
    \cup { [NoMode EXCEPT !.mythology = Some(m)] :
             m \in {"random", "greek", "void"} }

\* The namespace of a request: the strategy options and the flags
Namespace(m, f) == m @@ f

Requests ==
    { Namespace(m, f) : m \in {x \in Modes : x.timestamp}, f \in EveryFlags }
    \cup { Namespace(m, f) : m \in Modes, f \in {NoFlags, AllFlags} }
    \cup { Namespace([NoMode EXCEPT !.vibe = Some("tech")],
                     [NoFlags EXCEPT !.only_nouns = n, !.only_adjectives = a]) :
             n \in BOOLEAN, a \in BOOLEAN }

InitRequest ==
    /\ config \in {BaseConfig, EmptyListsConfig}
    /\ pronouncing = FALSE
    /\ pc = "dispatch"
    /\ raised = "none"
    /\ args \in Requests
    /\ generator = << >>
    /\ base = << >>
    /\ SamplerIdle
    /\ AnagramIdle
    /\ ProcessIdle
    /\ MainIdle
    /\ ProberIdle

NextRequest ==
    \/ gbu_combined
    \/ gbu_timestamp
    \/ gbu_retro
    \/ gbu_vibe
    \/ gbu_profession
    \/ gbu_keywords
    \/ gbu_mythology
    \/ gbu_realname
    \/ gbu_anagram
    \/ gbu_standard
    \/ gfp_choose_pattern
    \/ gfp_attempt
    \/ gfp_construct
    \/ gfp_return
    \/ anagram_shuffle
    \/ anagram_finish
    \/ NextModifiers

SpecRequest == InitRequest /\ [][NextRequest]_vars


(***************************************************************************)
(* Claims about a generation request                                       *)
(***************************************************************************)
DigitVal(c) == IndexIn(c, DigitChars) - 1

TwoDigits(t, lo, hi) ==
    /\ Len(t) = 2 /\ isdigit(t[1]) /\ isdigit(t[2])
    /\ 10 * DigitVal(t[1]) + DigitVal(t[2]) \in lo..hi

\* h is base_word, "_", MMDD, "_", HHMM
IsTimestampHandle(h, base_word) ==
    LET n == Len(base_word)
    IN  /\ Len(h) = n + 10
        /\ SubSeq(h, 1, n) = base_word
        /\ h[n + 1] = "_" /\ h[n + 6] = "_"
        /\ TwoDigits(SubSeq(h, n + 2, n + 3), 1, 12)
        /\ TwoDigits(SubSeq(h, n + 4, n + 5), 1, 31)
        /\ TwoDigits(SubSeq(h, n + 7, n + 8), 0, 23)
        /\ TwoDigits(SubSeq(h, n + 9, n + 10), 0, 59)

GbuOver == pc \notin {"dispatch", "gfp_pattern", "gfp_loop", "gfp_construct",
                      "returned", "anagram_shuffle", "anagram_case"}

\* C4: when the timestamp generator produced the handle, process_username
\* calls no modifier whatever the flags and the length: the finished handle
\* is the generator's string, base_word "_" MMDD "_" HHMM.
C4_TimestampUntouched ==
    (generator = <<"generate_timestamp_username">> /\ GbuOver) =>
        /\ applied = << >>
        /\ username = base
        /\ IsTimestampHandle(base, args.base_word)
        /\ pc \in {"pu_timestamp", "finished"}

C4_TimestampWithAllFlags ==
    /\ pc = "finished"
    /\ generator = <<"generate_timestamp_username">>
    /\ args.use_leet /\ args.use_prefix_suffix /\ args.no_numbers
    /\ args.use_special_chars /\ args.alt_caps /\ args.length = 3
    /\ username = user \o <<"_","0","1","0","5","_","0","9","0","7">>

\* C9: a generation request ends with a handle or with ValidationError; no
\* other exception escapes generate_base_username and process_username.
C9_OnlyValidationError ==
    /\ raised \in {"none", "ValidationError"}
    /\ pc = "raised" => raised = "ValidationError"

\* The mode a request asks for: the first strategy option that is given,
\* in the dispatcher's order
Given(o) == ~IsNone(o)

RequestedMode(a) ==
    IF Given(a.vibe) /\ Given(a.profession) THEN "combined"
    ELSE IF a.timestamp THEN "timestamp"
    ELSE IF a.retro THEN "retro"
    ELSE IF Given(a.vibe) THEN "vibe"
    ELSE IF Given(a.profession) THEN "profession"
    ELSE IF Given(a.keywords) THEN "keywords"
    ELSE IF Given(a.mythology) THEN "mythology"
    ELSE IF Given(a.realname) THEN "realname"
    ELSE IF Given(a.anagram) THEN "anagram"
    ELSE "standard"

\* The required parameter of the requested mode does not resolve
Unresolved(a) ==
    LET m == RequestedMode(a)
    IN  \/ m \in {"vibe", "combined"} /\ a.vibe[1] \notin DOMAIN config.vibes
        \/ m \in {"profession", "combined"}
             /\ a.profession[1] \notin DOMAIN config.professions
        \/ m = "keywords" /\ Len(a.keywords[1]) = 0
        \/ m = "realname" /\ \A i \in DOMAIN a.realname[1] : isspace(a.realname[1][i])
        \/ m = "anagram" /\ Len(SelectSeq(a.anagram[1], isalpha)) < 3

\* C10: generate_base_username fails with ValidationError, and returns no
\* handle, exactly when the requested mode's parameter does not resolve.
C10_ValidationErrorIffUnresolved ==
    GbuOver =>
        /\ (raised = "ValidationError") <=> Unresolved(args)
        /\ raised = "ValidationError" => base = << >>

(***************************************************************************)
(* One availability check: check_username_availability called with a       *)
(* finished handle                                                         *)
(***************************************************************************)
UrlOf(site) == site \o <<"/">> \o UsernameTok

BodyPlain == <<"O","K">>

BodyPhrase == <<"N","o","t"," ","F","o","u","n","d">>

UrlPlain == <<"x","/","u","1">>

UrlLogin == <<"x","/","L","o","g","i","n">>

StatusCodes == {200, 404, 403, 429, 500}

ProbeOutcomes ==
    { Response(c, t, u) : c \in StatusCodes, t \in {BodyPlain, BodyPhrase},
                          u \in {UrlPlain, UrlLogin} }
    \cup {RequestException}

FewOutcomes ==
    { RequestException, Response(404, BodyPlain, UrlPlain),
      Response(200, BodyPlain, UrlPlain), Response(500, BodyPlain, UrlLogin) }

ManyPlatforms ==
    <<"p01", "p02", "p03", "p04", "p05", "p06", "p07", "p08", "p09", "p10",
      "p11">>

\* A run: the configured target map, the platforms argument, and what each
\* platform's server answers
ProbeRun(t, p, w) == [check_targets |-> t, platforms |-> p, web |-> w]

ProbeRuns ==
    \* no target map, an empty one, a selection that matches nothing
    { ProbeRun(t, None, << >>) : t \in {None, Some(<< >>)} }
    \cup { ProbeRun(Some(<< <<"x", UrlOf(<<"x">>)>> >>), Some(<<"y">>), << >>) }
    \* one platform, every outcome
    \cup { ProbeRun(Some(<< <<"x", UrlOf(<<"x">>)>> >>), p, "x" :> o) :
             p \in {None, Some(<< >>), Some(<<"x">>)}, o \in ProbeOutcomes }
    \* two platforms
    \cup { ProbeRun(Some(<< <<"x", UrlOf(<<"x">>)>>, <<"y", UrlOf(<<"y">>)>> >>),
                    p, ("x" :> ox) @@ ("y" :> oy)) :
             p \in {None, Some(<<"y">>), Some(<<"y", "x", "z">>)},
             ox \in FewOutcomes, oy \in FewOutcomes }
    \* a template whose field is not {username}
    \cup { ProbeRun(Some(t), None,
                    ("x" :> Response(200, BodyPlain, UrlPlain)) @@
                    ("y" :> Response(200, BodyPlain, UrlPlain))) :
             t \in { << <<"x", <<"x","/","{","u","}">> >>, <<"y", UrlOf(<<"y">>)>> >>,
                     << <<"y", UrlOf(<<"y">>)>>, <<"x", <<"x","/","{","}">> >> >> } }
    \* more platforms than the pool has threads
    \cup { ProbeRun(Some([i \in DOMAIN ManyPlatforms |->
                            <<ManyPlatforms[i], UrlOf(<<"p">>)>>]),
                    None,
                    [p \in Range(ManyPlatforms) |-> Response(200, BodyPlain, UrlPlain)]) }

InitProbe ==
    /\ \E run \in ProbeRuns :
          /\ config = [BaseConfig EXCEPT !.check_targets = run.check_targets]
          /\ platforms = run.platforms
          /\ web = run.web
    /\ pronouncing = FALSE
    /\ pc = "finished"
    /\ raised = "none"
    /\ NoRequest
    /\ username = <<"u","1">>
    /\ applied = << >>
    /\ trace = << >>
    /\ SamplerIdle
    /\ AnagramIdle
    /\ checker = "select"
    /\ targets = << >>
    /\ max_workers = 0
    /\ futures = << >>
    /\ results = << >>
    /\ collected = 0
    /\ out_of_order = FALSE
    /\ MainIdle

NextProbe ==
    \/ cua_select
    \/ cua_executor
    \/ cua_submit
    \/ \E i \in DOMAIN futures : worker_run(i)
    \/ \E i \in DOMAIN futures : worker_done(i)
    \/ cua_collect
    \/ cua_exit

SpecProbe == InitProbe /\ [][NextProbe]_vars

\* The pool's threads keep running and session.get ends within its timeout
SpecProbeFair == SpecProbe /\ WF_vars(NextProbe)

(***************************************************************************)
(* Claims about the availability prober                                    *)
(***************************************************************************)
HasPhrase(response) ==
    \E k \in DOMAIN NOT_FOUND_KEYWORDS :
        Contains(lower(response.text), NOT_FOUND_KEYWORDS[k])

HasLoginMarker(response) ==
    Contains(lower(response.url), <<"l","o","g","i","n">>)

Names(items) == { items[i][1] : i \in DOMAIN items }

\* C5: a finished probe's status follows the first matching rule: a network
\* failure gives TIMEOUT/FAIL; 404 gives AVAILABLE whatever the body and the
\* URL; else a not-found phrase in the lowercased body gives AVAILABLE; else
\* a login marker in the final URL gives BLOCKED/WAF; else 200 gives TAKEN;
\* else 403 or 429 gives BLOCKED/WAF; else ERROR with the status code.
C5_FirstMatchWins ==
    \A i \in DOMAIN futures :
        futures[i].state = "done" =>
            LET r == web[futures[i].platform]
                status == futures[i].value[2]
                code == r.status_code
            IN  /\ futures[i].value[1] = futures[i].platform
                /\ r.exception = "RequestException" => status = "TIMEOUT/FAIL"
                /\ r.exception = "none" =>
                    /\ code = 404 => status = "AVAILABLE"
                    /\ (code # 404 /\ HasPhrase(r)) => status = "AVAILABLE"
                    /\ (code # 404 /\ ~HasPhrase(r) /\ HasLoginMarker(r))
                          => status = "BLOCKED/WAF"
                    /\ (code = 200 /\ ~HasPhrase(r) /\ ~HasLoginMarker(r))
                          => status = "TAKEN"
                    /\ (code \in {403, 429} /\ ~HasPhrase(r) /\ ~HasLoginMarker(r))
                          => status = "BLOCKED/WAF"
                    /\ (code \notin {404, 200, 403, 429} /\ ~HasPhrase(r)
                          /\ ~HasLoginMarker(r))
                          => status = "ERROR:" \o ToString(code)

\* C5 happens: a 404 whose body has a not-found phrase and whose URL has a
\* login marker was classified, and so was a 200 with a not-found phrase
C5_Overlapping404 ==
    /\ checker = "returned"
    /\ \E i \in DOMAIN futures :
          /\ web[futures[i].platform] = Response(404, BodyPhrase, UrlLogin)
          /\ futures[i].value = <<futures[i].platform, "AVAILABLE">>

\* C6: every selected platform gets one future and at most one request; a
\* network failure never escapes the call; and when the call returns, every
\* probe has finished after exactly one request, the keys of the result are
\* the selected platforms, and each platform's status is the one its own
\* probe returned, TIMEOUT/FAIL exactly for the platforms whose request
\* failed.
C6_OneProbeEachAllCollected ==
    /\ Len(futures) <= Len(targets)
    /\ \A i \in DOMAIN futures :
          futures[i].platform = targets[i][1] /\ futures[i].gets <= 1
    /\ raised # "RequestException"
    /\ checker = "returned" =>
          /\ Len(futures) = Len(targets)
          /\ DOMAIN results = Names(targets)
          /\ \A i \in DOMAIN futures :
                /\ futures[i].state = "done" /\ futures[i].gets = 1
                /\ results[futures[i].platform] = futures[i].value[2]
                /\ (results[futures[i].platform] = "TIMEOUT/FAIL")
                      <=> (web[futures[i].platform] = RequestException)

\* C6 happens: the call returned although one request failed, the other
\* platform has its own status, and the second probe finished first
C6_FailureBesideSuccess ==
    /\ checker = "returned"
    /\ out_of_order
    /\ \E p \in DOMAIN results, q \in DOMAIN results :
          /\ web[p] = RequestException /\ results[p] = "TIMEOUT/FAIL"
          /\ web[q] # RequestException /\ results[q] = "TAKEN"

InFlightWithinPool ==
    /\ in_flight(futures) <= min(Len(targets), 10)
    /\ (\E i \in DOMAIN futures : futures[i].state = "queued") =>
          (in_flight(futures) > 0 \/ ENABLED (\E i \in DOMAIN futures : worker_run(i)))
    /\ checker \in {"returned", "raised"} =>
          \A i \in DOMAIN futures : finished(futures[i])

\* C7: at every moment at most min(n, 10) probes are in flight, n the number
\* of selected platforms, and a waiting probe always has a thread free to
\* take it or a running probe ahead of it; and every call comes to its end
\* with each submitted probe executed.
C7_InFlightBounded ==
    /\ []InFlightWithinPool
    /\ <>[](/\ checker \in {"returned", "raised"}
            /\ \A i \in DOMAIN futures : finished(futures[i]))

\* C7 happens: eleven platforms, ten probes in flight, the eleventh waiting
C7_PoolSaturated ==
    /\ Len(futures) = 11
    /\ in_flight(futures) = 10
    /\ futures[11].state = "queued"

\* C8: check_username_availability raises nothing, and what it returns has
\* one entry for each selected platform.
C8_NeverRaises ==
    /\ checker # "raised"
    /\ raised = "none"
    /\ checker = "returned" => DOMAIN results = Names(targets)

(***************************************************************************)
(* cli.py: generate_and_print, the loop over args.count requests           *)
(***************************************************************************)
\* The names bound in cli.py by its import statements
cli_imports ==
    { "argparse", "sys", "csv", "json", "List", "Optional", "__version__",
      "get_config_value", "load_config", "generate_base_username",
      "apply_leet_speak", "apply_prefix_suffix", "apply_special_chars",
      "strip_numbers", "enforce_length", "apply_alt_caps",
      "check_username_availability", "UsernameGeneratorError" }

\* What the except clauses of generate_and_print do with an exception of the
\* request: the first clause names ValidationError, and evaluating a name
\* that is not bound raises NameError out of the try statement
except_clauses(exception) ==
    IF "ValidationError" \notin cli_imports THEN "NameError"
    ELSE "handled"

\* The options of main that are no part of a generation request
Cli(n, check, sync, output) ==
    [count |-> n, check |-> check, sync |-> sync, output |-> output]

gap_frame ==
    UNCHANGED <<config, pronouncing, rhyme_cache, args, proberVars, usernames,
                checked, document, rhyme_calls>>

\* The locals of one request, as a new call finds them
request_reset ==
    /\ generator' = << >> /\ base' = << >> /\ caller' = "none"
    /\ adjectives' = << >> /\ nouns' = << >> /\ context' = default_context
    /\ pattern' = << >> /\ adj' = << >> /\ noun' = << >> /\ attempts' = 0
    /\ warned' = FALSE /\ result' = << >> /\ prior_valid' = FALSE
    /\ adj_draws' = 0 /\ noun_draws' = 0
    /\ letters_only' = << >> /\ shuffled' = << >> /\ shuffles' = 0
    /\ username' = << >> /\ applied' = << >> /\ trace' = << >>

\* "for i in range(args.count)": the next request, or "return generated_list"
gap_next ==
    /\ pc = "batch"
    /\ IF iteration < args.count
       THEN /\ pc' = "dispatch"
            /\ request_reset
       ELSE /\ pc' = "batch_returned"
            /\ UNCHANGED <<generator, base, caller, gfpVars, result,
                           anagramVars, processVars>>
    /\ UNCHANGED <<raised, generated_list, iteration, printed, reported>>
    /\ gap_frame

\* generated_list.append(final); print(...)
gap_append ==
    /\ pc = "finished"
    /\ generated_list' = Append(generated_list, username)
    /\ printed' = Append(printed, username)
    /\ iteration' = iteration + 1
    /\ pc' = "batch"
    /\ UNCHANGED <<raised, reported, generator, base, caller, gfpVars, result,
                   anagramVars, processVars>>
    /\ gap_frame

\* The request raised: the except clauses are tried in turn
gap_except ==
    /\ pc = "raised"
    /\ IF except_clauses(raised) = "handled"
       THEN /\ reported' = Append(reported, raised)
            /\ raised' = "none"
            /\ iteration' = iteration + 1
            /\ pc' = "batch"
       ELSE /\ raised' = except_clauses(raised)
            /\ pc' = "batch_raised"
            /\ UNCHANGED <<reported, iteration>>
    /\ UNCHANGED <<generated_list, printed, generator, base, caller, gfpVars,
                   result, anagramVars, processVars>>
    /\ gap_frame

(***************************************************************************)
(* One batch: generate_and_print called with a namespace                   *)
(***************************************************************************)
Counts == {1, 2}

BatchModes ==
    { NoMode,
      [NoMode EXCEPT !.timestamp = TRUE],
      [NoMode EXCEPT !.retro = TRUE],
      [NoMode EXCEPT !.vibe = Some("tech")],
      [NoMode EXCEPT !.vibe = Some("nope")],
      [NoMode EXCEPT !.profession = Some("dev")],
      [NoMode EXCEPT !.vibe = Some("tech"), !.profession = Some("dev")],
      [NoMode EXCEPT !.keywords = Some(<<Wolf>>)],
      [NoMode EXCEPT !.mythology = Some("greek")],
      [NoMode EXCEPT !.realname = Some(<<"A","n","n">>)],
      [NoMode EXCEPT !.anagram = Some(<<"c","a","t">>)],
      [NoMode EXCEPT !.anagram = Some(<<"a","b">>)] }

BatchRequests ==
    { Namespace(m, NoFlags) @@ Cli(n, FALSE, None, None) : m \in BatchModes, n \in Counts }
    \cup { Namespace(NoMode, AllFlags) @@ Cli(n, FALSE, None, None) : n \in Counts }

InitBatch ==
    /\ config = BaseConfig
    /\ pronouncing = FALSE
    /\ pc = "batch"
    /\ raised = "none"
    /\ args \in BatchRequests
    /\ generator = << >>
    /\ base = << >>
    /\ SamplerIdle
    /\ AnagramIdle
    /\ ProcessIdle
    /\ MainIdle
    /\ ProberIdle

NextBatch ==
    \/ gap_next
    \/ gap_append
    \/ gap_except
    \/ NextRequest

SpecBatch == InitBatch /\ [][NextBatch]_vars

(***************************************************************************)
(* Claims about a batch                                                    *)
(***************************************************************************)
\* C11: no exception of a request ends the batch: generate_and_print always
\* returns, after args.count requests, the handles of the requests that
\* succeeded, one report on stderr for each request that failed, and a
\* ValidationError is among the exceptions it reports rather than raises.
C11_BatchSurvivesFailedRequest ==
    /\ pc # "batch_raised"
    /\ pc = "batch_returned" =>
          /\ iteration = args.count
          /\ Len(generated_list) + Len(reported) = args.count
          /\ generated_list = printed

(***************************************************************************)
(* enforce_length alone: called with a string and a length                 *)
(***************************************************************************)
MaxInput == 4

MaxLength == 3

\* Every string over an alphabet, up to a length
StringsUpTo(alphabet, n) == UNION { [1..k -> alphabet] : k \in 0..n }

\* username = enforce_length(username, args.length), the call of
\* process_username without its guard
call_enforce_length ==
    /\ pc = "call_enforce_length"
    /\ result' \in enforce_length(username, args.length)
    /\ pc' = "enforced"
    /\ UNCHANGED <<envVars, rhyme_cache, caller, raised, args, generator, base,
                   gfpVars, anagramVars, processVars>>

InitEnforceLength ==
    /\ config = BaseConfig
    /\ pronouncing = FALSE
    /\ pc = "call_enforce_length"
    /\ raised = "none"
    /\ \E n \in -1..MaxLength : args = [length |-> n]
    /\ generator = << >>
    /\ base = << >>
    /\ username \in StringsUpTo({"a", "7", "_"}, MaxInput)
    /\ applied = << >>
    /\ trace = << >>
    /\ SamplerIdle
    /\ AnagramIdle
    /\ MainIdle
    /\ ProberIdle

NextEnforceLength == call_enforce_length

SpecEnforceLength == InitEnforceLength /\ [][NextEnforceLength]_vars

\* C12: for a length L > 0 enforce_length returns a string of exactly L
\* characters: s itself when len(s) = L, the first L characters of s when s
\* is longer, and s followed by L - len(s) decimal digits when s is shorter;
\* for L <= 0 it returns s.
C12_ExactLength ==
    pc = "enforced" =>
        LET s == username
            L == args.length
        IN  /\ L > 0 =>
                /\ Len(result) = L
                /\ Len(s) = L => result = s
                /\ Len(s) > L => result = SubSeq(s, 1, L)
                /\ Len(s) < L =>
                      /\ SubSeq(result, 1, Len(s)) = s
                      /\ \A i \in (Len(s) + 1)..L : isdigit(result[i])
            /\ L <= 0 => result = s

\* C12 happens: a short string was padded, digits after a letter
C12_Padded ==
    /\ pc = "enforced"
    /\ username = <<"a">> /\ args.length = 3
    /\ result = <<"a", "0", "9">>

(***************************************************************************)
(* cli.py: main, after generate_and_print has returned                     *)
(***************************************************************************)
\* The attributes parse_args gives the namespace: one for each add_argument
parser_dests ==
    { "count", "base_word", "timestamp", "retro", "mythology", "keywords",
      "realname", "anagram", "vibe", "profession", "use_leet",
      "use_prefix_suffix", "no_numbers", "use_special_chars", "alt_caps",
      "length", "only_nouns", "only_adjectives", "output", "format", "check",
      "sync" }

\* What main passes as platforms: the call has one argument
platforms_argument(a) == None

main_frame ==
    UNCHANGED <<config, pronouncing, rhyme_cache, caller, args, generator,
                base, gfpVars, result, anagramVars, applied, trace, web,
                out_of_order, generated_list, iteration, document, printed,
                reported, rhyme_calls>>

\* check_username_availability(u) is called
main_call_checker(u) ==
    /\ username' = u
    /\ platforms' = platforms_argument(args)
    /\ checker' = "select"
    /\ targets' = << >>
    /\ results' = << >>
    /\ futures' = << >>
    /\ max_workers' = 0
    /\ collected' = 0

main_keeps_checker ==
    UNCHANGED <<username, platforms, checker, targets, results, futures,
                max_workers, collected>>

\* usernames = generate_and_print(args); if args.check: ...
main_usernames ==
    /\ pc = "batch_returned"
    /\ usernames' = generated_list
    /\ pc' = IF args.check THEN "first_check" ELSE "save"
    /\ UNCHANGED <<raised, checked>>
    /\ main_keeps_checker
    /\ main_frame

\* check_username_availability(usernames[0])
main_first_check ==
    /\ pc = "first_check"
    /\ IF usernames = << >>
       THEN /\ raised' = "IndexError"
            /\ pc' = "main_raised"
            /\ main_keeps_checker
       ELSE /\ main_call_checker(usernames[1])
            /\ pc' = "first_checking"
            /\ UNCHANGED raised
    /\ UNCHANGED <<usernames, checked>>
    /\ main_frame

\* "for u in usernames": res = check_username_availability(u)
main_check ==
    /\ \/ pc = "first_checking" /\ checker = "returned"
       \/ pc = "check_loop"
    /\ IF checked < Len(usernames)
       THEN /\ main_call_checker(usernames[checked + 1])
            /\ pc' = "checking"
       ELSE /\ pc' = "save"
            /\ main_keeps_checker
    /\ UNCHANGED <<raised, usernames, checked>>
    /\ main_frame

\* available = [...]; the report of one handle
main_report ==
    /\ pc = "checking" /\ checker = "returned"
    /\ checked' = checked + 1
    /\ pc' = "check_loop"
    /\ UNCHANGED <<raised, usernames>>
    /\ main_keeps_checker
    /\ main_frame

\* An exception of check_username_availability leaves main
main_check_raised ==
    /\ pc \in {"first_checking", "checking"} /\ checker = "raised"
    /\ pc' = "main_raised"
    /\ UNCHANGED <<raised, usernames, checked>>
    /\ main_keeps_checker
    /\ main_frame

\* "if args.output: ... args.interactive ..." and "if not args.interactive":
\* both read an attribute the parser does not define
main_save ==
    /\ pc = "save"
    /\ IF "interactive" \notin parser_dests
       THEN raised' = "AttributeError" /\ pc' = "main_raised"
       ELSE pc' = "main_returned" /\ UNCHANGED raised
    /\ UNCHANGED <<usernames, checked>>
    /\ main_keeps_checker
    /\ main_frame

(***************************************************************************)
(* One run of main with --check, from the return of generate_and_print     *)
(***************************************************************************)
SyncTargets == << <<"x", UrlOf(<<"x">>)>>, <<"y", UrlOf(<<"y">>)>> >>

SyncOutcomes ==
    { Response(404, BodyPlain, UrlPlain), Response(200, BodyPlain, UrlPlain) }

GeneratedLists ==
    { << >>, << <<"u","1">> >>, << <<"u","1">>, <<"v","2">> >> }

InitSync ==
    /\ \E t \in {Some(SyncTargets), None} :
          config = [BaseConfig EXCEPT !.check_targets = t]
    /\ pronouncing = FALSE
    /\ pc = "batch_returned"
    /\ raised = "none"
    /\ generated_list \in GeneratedLists
    /\ \E s \in {None, Some(<<"x">>), Some(<<"x", "y">>)} :
          args = Namespace(NoMode, NoFlags)
                    @@ Cli(Len(generated_list), TRUE, s, None)
    /\ iteration = Len(generated_list)
    /\ printed = generated_list
    /\ reported = << >>
    /\ usernames = << >>
    /\ checked = 0
    /\ document = None
    /\ rhyme_calls = << >>
    /\ generator = << >>
    /\ base = << >>
    /\ SamplerIdle
    /\ AnagramIdle
    /\ ProcessIdle
    /\ platforms = None /\ targets = << >> /\ results = << >>
    /\ futures = << >> /\ max_workers = 0 /\ collected = 0
    /\ checker = "idle" /\ out_of_order = FALSE
    /\ web \in [{"x", "y"} -> SyncOutcomes]

NextSync ==
    \/ main_usernames
    \/ main_first_check
    \/ main_check
    \/ main_report
    \/ main_check_raised
    \/ main_save
    \/ NextProbe

SpecSync == InitSync /\ [][NextSync]_vars

\* The status check_individual_platform gives a platform
StatusOn(p) == check_individual_platform(p, web[p]).value[2]

RECURSIVE field_end(_, _, _)
field_end(s, i, depth) ==
    IF i > Len(s) THEN 0
    ELSE IF s[i] = "{" THEN field_end(s, i + 1, depth + 1)
    ELSE IF s[i] = "}"
         THEN IF depth = 1 THEN i ELSE field_end(s, i + 1, depth - 1)
    ELSE field_end(s, i + 1, depth)

\* The field name of a replacement field: what precedes its conversion
\* ("!") or its format specification (":")
field_name(text) ==
    LET stops == {i \in DOMAIN text : text[i] \in {":", "!"}}
    IN  IF stops = {} THEN text
        ELSE SubSeq(text, 1, (CHOOSE i \in stops : \A j \in stops : i <= j) - 1)

\* string.Formatter().parse(pattern): whether it raises ValueError, and the
\* field names t[1] it yields; "{{" and "}}" are escaped braces
RECURSIVE formatter_parse(_)
formatter_parse(s) ==
    IF s = << >> THEN [error |-> FALSE, keys |-> << >>]
    ELSE IF s[1] = "{"
         THEN IF Len(s) >= 2 /\ s[2] = "{"
              THEN formatter_parse(SubSeq(s, 3, Len(s)))
              ELSE LET close == field_end(s, 2, 1)
                   IN  IF close = 0 THEN [error |-> TRUE, keys |-> << >>]
                       ELSE LET rest == formatter_parse(SubSeq(s, close + 1, Len(s)))
                            IN  [error |-> rest.error,
                                 keys |-> <<field_name(SubSeq(s, 2, close - 1))>>
                                              \o rest.keys]
    ELSE IF s[1] = "}"
         THEN IF Len(s) >= 2 /\ s[2] = "}"
              THEN formatter_parse(SubSeq(s, 3, Len(s)))
              ELSE [error |-> TRUE, keys |-> << >>]
    ELSE formatter_parse(Tail(s))

valid_keys ==
    { <<"n","o","u","n">>, <<"a","d","j","e","c","t","i","v","e">>,
      <<"n","u","m","b","e","r">> }

\* validate_patterns returns self, and raises nothing
validate_patterns(patterns) ==
    \A i \in DOMAIN patterns :
        LET parsed == formatter_parse(patterns[i])
        IN  /\ ~parsed.error
            /\ \A k \in DOMAIN parsed.keys : parsed.keys[k] \in valid_keys

\* ConfigManager._config before any load
NotLoaded == [loaded |-> FALSE]

\* ConfigManager.load: the _config it leaves and the exception it raises
load(data, old) ==
    IF validate_patterns(data.patterns)
    THEN [config |-> data, raised |-> "none"]
    ELSE [config |-> old, raised |-> "ValueError"]

load_frame ==
    UNCHANGED <<pronouncing, rhyme_cache, caller, args, generator, base,
                gfpVars, result, anagramVars, processVars, proberVars,
                mainVars, rhyme_calls>>

\* setup_parser: "try: load_config() except Exception: pass"
sp_load ==
    /\ pc = "setup_parser"
    /\ config' = load(document, config).config
    /\ pc' = "parser_choices"
    /\ UNCHANGED raised
    /\ load_frame

\* setup_parser: get_config_value('mythology', {}) and the like; get loads
\* the configuration when none is installed
sp_choices ==
    /\ pc = "parser_choices"
    /\ IF config = NotLoaded
       THEN /\ config' = load(document, config).config
            /\ raised' = load(document, config).raised
            /\ pc' = IF raised' = "none" THEN "main_load" ELSE "main_raised"
       ELSE /\ pc' = "main_load"
            /\ UNCHANGED <<config, raised>>
    /\ load_frame

\* main: "try: load_config() except Exception: ... sys.exit(1)", then the
\* first call of generate_and_print
main_load ==
    /\ pc = "main_load"
    /\ config' = load(document, config).config
    /\ pc' = IF load(document, config).raised = "none" THEN "batch" ELSE "exited"
    /\ UNCHANGED raised
    /\ load_frame

(***************************************************************************)
(* One run of main from its start: config.json is loaded, then a batch     *)
(***************************************************************************)
GodTokPattern == <<"{","g","o","d","}">>

DocumentPatterns ==
    { << AdjTok \o <<"_">> \o NounTok \o NumTok, NounTok \o <<"_">> \o NumTok >>,
      << >>,
      << NounTok, <<"T","h","e">> \o GodTokPattern >>,
      << <<"{","}">> >>,
      << <<"{","n","o","u","n">> >>,
      << <<"n","o","u","n","}">> >>,
      << <<"{","n","o","u","n","!","r","}">> >>,
      << <<"{","n","o","u","n",":">> \o GodTokPattern \o <<"}">> >> }

Documents == { [BaseConfig EXCEPT !.patterns = ps] : ps \in DocumentPatterns }

InitLoad ==
    /\ config = NotLoaded
    /\ document \in Documents
    /\ pronouncing = FALSE
    /\ pc = "setup_parser"
    /\ raised = "none"
    /\ \E n \in {0, 1} :
          args = Namespace([NoMode EXCEPT !.vibe = Some("tech")], NoFlags)
                    @@ Cli(n, FALSE, None, None)
    /\ generator = << >>
    /\ base = << >>
    /\ SamplerIdle
    /\ AnagramIdle
    /\ ProcessIdle
    /\ ProberIdle
    /\ generated_list = << >> /\ iteration = 0 /\ usernames = << >>
    /\ checked = 0 /\ printed = << >> /\ reported = << >>
    /\ rhyme_calls = << >>

NextLoad ==
    \/ sp_load
    \/ sp_choices
    \/ main_load
    \/ gap_next
    \/ gap_append
    \/ gap_except
    \/ gbu_vibe
    \/ gfp_choose_pattern
    \/ gfp_attempt
    \/ gfp_construct
    \/ gfp_return
    \/ NextModifiers

SpecLoad == InitLoad /\ [][NextLoad]_vars

\* The names between a "{" and the next "}" with no brace in between
BraceNames(p) ==
    { SubSeq(p, i + 1, j - 1) :
        <<i, j>> \in { q \in (DOMAIN p) \X (DOMAIN p) :
                         /\ q[1] < q[2] /\ p[q[1]] = "{" /\ p[q[2]] = "}"
                         /\ \A k \in (q[1] + 1)..(q[2] - 1) : p[k] \notin {"{", "}"} } }

UsesOnlyValidPlaceholders(p) ==
    \A name \in BraceNames(p) : field_name(name) \in valid_keys

\* C15: every pattern of the installed configuration has only the
\* placeholders adjective, noun and number; and while the document has a
\* pattern with another placeholder, no configuration is installed and no
\* request has been started.
C15_OnlyValidPlaceholdersLoaded ==
    /\ config # NotLoaded =>
          \A i \in DOMAIN config.patterns :
              UsesOnlyValidPlaceholders(config.patterns[i])
    /\ (\E i \in DOMAIN document.patterns :
            ~UsesOnlyValidPlaceholders(document.patterns[i])) =>
          /\ config = NotLoaded
          /\ generator = << >> /\ generated_list = << >>

(***************************************************************************)
(* generate_anagram_username alone                                         *)
(***************************************************************************)
AnagramSources ==
    { <<"c","a","t">>, <<"a","a","a">>, <<"a","A","b">>, <<"T","e","a","!","m">>,
      <<"a","1","b","2","c">>, <<"a","b">>, <<"n","o","o","n">> }

InitAnagram ==
    /\ config = BaseConfig
    /\ pronouncing = FALSE
    /\ pc = "dispatch"
    /\ raised = "none"
    /\ \E w \in AnagramSources :
          args = Namespace([NoMode EXCEPT !.anagram = Some(w)], NoFlags)
    /\ generator = << >>
    /\ base = << >>
    /\ SamplerIdle
    /\ AnagramIdle
    /\ ProcessIdle
    /\ MainIdle
    /\ ProberIdle

NextAnagram ==
    \/ gbu_anagram
    \/ anagram_shuffle
    \/ anagram_finish

SpecAnagram == InitAnagram /\ [][NextAnagram]_vars

Occurrences(s, c) == Cardinality({i \in DOMAIN s : s[i] = c})

IsPermutation(a, b) ==
    /\ Len(a) = Len(b)
    /\ \A c \in Range(a) \cup Range(b) : Occurrences(a, c) = Occurrences(b, c)

AnagramReturned ==
    generator = <<"generate_anagram_username">> /\ pc = process_order[1]

\* C16: the shuffle loop runs at most 20 times, and while it runs every
\* shuffle so far has the original letter order; the letters that leave the
\* loop are a permutation of the source's letters and differ in order from
\* the original, ignoring case, unless all 20 shuffles equalled it; the
\* handle is these letters in some case, then nothing or a number in 1..99;
\* and a source with three letters or more raises nothing.
C16_AnagramWithin20Shuffles ==
    /\ shuffles <= 20
    /\ pc = "anagram_shuffle" =>
          /\ shuffles < 20
          /\ shuffles > 0 => lower(shuffled) = lower(letters_only)
    /\ pc \in {"anagram_shuffle", "anagram_case"} =>
          IsPermutation(shuffled, letters_only)
    /\ (pc = "anagram_case" \/ AnagramReturned) =>
          /\ shuffles >= 1
          /\ letters_only = SelectSeq(args.anagram[1], isalpha)
          /\ lower(shuffled) = lower(letters_only) => shuffles = 20
    /\ AnagramReturned =>
          LET n == Len(letters_only)
              letters == SubSeq(base, 1, n)
              number == SubSeq(base, n + 1, Len(base))
          IN  /\ lower(letters) = lower(shuffled)
              /\ IsPermutation(lower(letters), lower(letters_only))
              /\ number \in {<< >>} \cup { IntToStr(k) : k \in 1..99 }
    /\ (~IsNone(args.anagram)
        /\ Len(SelectSeq(args.anagram[1], isalpha)) >= 3) => raised = "none"

\* C16 happens: twenty shuffles of "aaa" equalled the original, and the last
\* one was returned
C16_CapReached ==
    /\ AnagramReturned
    /\ shuffles = 20
    /\ lower(shuffled) = lower(letters_only)
    /\ raised = "none"

(***************************************************************************)
(* modifiers.py: is_rhyming statement by statement, called from threads    *)
(* that share _RHYME_CACHE                                                 *)
(***************************************************************************)
\* The words the phonetic dictionary has an entry for
pronouncing_words ==
    { w_blue, w_shoe, w_fat, w_fiat, <<"b","a","t">>, <<"c","a","t">> }

\* A slip: an empty set is stored instead of the rhymes
stored_rhymes_empty(rhymes) == {}

\* set(rhymes), the value stored under s1
stored_rhymes(rhymes) == rhymes

NoCall ==
    [pc |-> "idle", word1 |-> << >>, word2 |-> << >>, rhymes |-> {},
     hit |-> FALSE, result |-> FALSE]

rhyme_frame ==
    UNCHANGED <<config, pronouncing, pc, caller, raised, args, generator,
                base, gfpVars, result, anagramVars, processVars, proberVars,
                mainVars>>

\* is_rhyming(word1, word2) is called: the test of the arguments, s1 and s2,
\* "if pronouncing"
rhyme_call(t, w1, w2) ==
    /\ rhyme_calls[t].pc = "idle"
    /\ rhyme_calls' =
          [rhyme_calls EXCEPT ![t] =
              [NoCall EXCEPT !.word1 = w1, !.word2 = w2,
                             !.pc = IF Len(w1) = 0 \/ Len(w2) = 0 THEN "done"
                                    ELSE IF pronouncing THEN "lookup"
                                    ELSE "fallback"]]
    /\ UNCHANGED rhyme_cache
    /\ rhyme_frame

\* "if s1 in _RHYME_CACHE: rhymes = _RHYME_CACHE[s1]
\*  else: rhymes = pronouncing.rhymes(s1)"
rhyme_lookup(t) ==
    /\ rhyme_calls[t].pc = "lookup"
    /\ LET s1 == lower(rhyme_calls[t].word1)
       IN  rhyme_calls' =
              IF s1 \in DOMAIN rhyme_cache
              THEN [rhyme_calls EXCEPT ![t].rhymes = rhyme_cache[s1],
                                       ![t].hit = TRUE,
                                       ![t].pc = "member"]
              ELSE [rhyme_calls EXCEPT ![t].rhymes = pronouncing_rhymes(s1),
                                       ![t].pc = "store"]
    /\ UNCHANGED rhyme_cache
    /\ rhyme_frame

\* _RHYME_CACHE[s1] = set(rhymes)
rhyme_store(t) ==
    /\ rhyme_calls[t].pc = "store"
    /\ LET s1 == lower(rhyme_calls[t].word1)
       IN  rhyme_cache' =
              [k \in DOMAIN rhyme_cache \cup {s1} |->
                  IF k = s1 THEN stored_rhymes(rhyme_calls[t].rhymes)
                            ELSE rhyme_cache[k]]
    /\ rhyme_calls' = [rhyme_calls EXCEPT ![t].pc = "member"]
    /\ rhyme_frame

\* "if s2 in rhymes: return True"
rhyme_member(t) ==
    /\ rhyme_calls[t].pc = "member"
    /\ rhyme_calls' =
          IF lower(rhyme_calls[t].word2) \in rhyme_calls[t].rhymes
          THEN [rhyme_calls EXCEPT ![t].result = TRUE, ![t].pc = "done"]
          ELSE [rhyme_calls EXCEPT ![t].pc = "fallback"]
    /\ UNCHANGED rhyme_cache
    /\ rhyme_frame

\* the suffix comparison and its return
rhyme_fallback(t) ==
    /\ rhyme_calls[t].pc = "fallback"
    /\ rhyme_calls' =
          [rhyme_calls EXCEPT
              ![t].result = suffix_rhyme(lower(rhyme_calls[t].word1),
                                         lower(rhyme_calls[t].word2)),
              ![t].pc = "done"]
    /\ UNCHANGED rhyme_cache
    /\ rhyme_frame

\* the caller goes on, and may call again
rhyme_return(t) ==
    /\ rhyme_calls[t].pc = "done"
    /\ rhyme_calls' = [rhyme_calls EXCEPT ![t] = NoCall]
    /\ UNCHANGED rhyme_cache
    /\ rhyme_frame

(***************************************************************************)
(* Calls of is_rhyming, one after another and side by side                 *)
(***************************************************************************)
RhymeThreads == {1, 2}

\* (Fat,Fiat): both in the dictionary, no phonetic rhyme, same last two
\* letters.  (Blue,Shoe): a phonetic rhyme only.  (Big,Fig): not in the
\* dictionary.  The words of one or two letters take the last-letter test.
RhymePairs ==
    { <<Fat, Fiat>>, <<Fat, Bat>>, <<Blue, Shoe>>, <<Shoe, Blue>>, <<Big, Fig>>,
      <<Big, Bat>>, <<<<"A","b">>, <<"F","o","B">>>>, <<<<"O">>, <<"g","o">>>>,
      <<<<"A","b">>, <<"a","t">>>>, << << >>, Bat >>, << Bat, << >> >> }

InitRhyme ==
    /\ config = BaseConfig
    /\ pronouncing \in BOOLEAN
    /\ rhyme_cache = << >>
    /\ pc = "idle"
    /\ caller = "none"
    /\ raised = "none"
    /\ NoRequest
    /\ adjectives = << >> /\ nouns = << >> /\ context = default_context
    /\ pattern = << >> /\ adj = << >> /\ noun = << >> /\ attempts = 0
    /\ warned = FALSE /\ result = << >> /\ prior_valid = FALSE
    /\ adj_draws = 0 /\ noun_draws = 0
    /\ AnagramIdle
    /\ ProcessIdle
    /\ ProberIdle
    /\ generated_list = << >> /\ iteration = 0 /\ usernames = << >>
    /\ checked = 0 /\ document = None /\ printed = << >> /\ reported = << >>
    /\ rhyme_calls = [t \in RhymeThreads |-> NoCall]

NextRhyme ==
    \/ \E t \in RhymeThreads, p \in RhymePairs : rhyme_call(t, p[1], p[2])
    \/ \E t \in RhymeThreads : rhyme_lookup(t)
    \/ \E t \in RhymeThreads : rhyme_store(t)
    \/ \E t \in RhymeThreads : rhyme_member(t)
    \/ \E t \in RhymeThreads : rhyme_fallback(t)
    \/ \E t \in RhymeThreads : rhyme_return(t)

SpecRhyme == InitRhyme /\ [][NextRhyme]_vars

(***************************************************************************)
(* Claims about is_rhyming and its cache                                   *)
(***************************************************************************)
LastLetters(a, b) ==
    IF Len(a) < 3 \/ Len(b) < 3
    THEN a[Len(a)] = b[Len(b)]
    ELSE SubSeq(a, Len(a) - 1, Len(a)) = SubSeq(b, Len(b) - 1, Len(b))

Finished(t) ==
    /\ rhyme_calls[t].pc = "done"
    /\ Len(rhyme_calls[t].word1) > 0 /\ Len(rhyme_calls[t].word2) > 0

\* C17: for non-empty words, when the phonetic source is there and has both
\* words, is_rhyming returns whether the source lists the second word as a
\* rhyme of the first; otherwise it returns the suffix test: the last letter
\* when a word has fewer than three, the last two letters otherwise, case
\* ignored.
C17_PhoneticWhenKnown ==
    \A t \in DOMAIN rhyme_calls :
        Finished(t) =>
            LET a == lower(rhyme_calls[t].word1)
                b == lower(rhyme_calls[t].word2)
            IN  IF pronouncing /\ a \in pronouncing_words /\ b \in pronouncing_words
                THEN rhyme_calls[t].result = (b \in pronouncing_rhymes(a))
                ELSE rhyme_calls[t].result = LastLetters(a, b)

\* What every step leaves of the cache: each key stays, with the value it had
CacheOnlyGrows ==
    \A k \in DOMAIN rhyme_cache :
        k \in DOMAIN rhyme_cache' /\ rhyme_cache'[k] = rhyme_cache[k]

\* C18: over every interleaving of is_rhyming calls, a key of the cache (the
\* lowercased first word) is never removed and its rhyme set never changes,
\* two writers of the same key store the same set, and the boolean a call
\* returns is the one a call on an empty cache returns, be it a hit or a miss.
C18_CacheAppendOnly ==
    /\ [][CacheOnlyGrows]_vars
    /\ [](\A k \in DOMAIN rhyme_cache : rhyme_cache[k] = pronouncing_rhymes(k))
    /\ [](\A t \in DOMAIN rhyme_calls :
              rhyme_calls[t].pc = "done" =>
                  rhyme_calls[t].result =
                      is_rhyming(rhyme_calls[t].word1, rhyme_calls[t].word2,
                                 pronouncing, << >>))

\* Both threads missed on the same key and both have stored it; the rhyme is
\* one only the phonetic source gives
C18_RacingWriters ==
    /\ \A t \in RhymeThreads :
          /\ rhyme_calls[t].pc = "done"
          /\ ~rhyme_calls[t].hit
          /\ rhyme_calls[t].word1 = Blue
          /\ rhyme_calls[t].word2 = Shoe
          /\ rhyme_calls[t].result
    /\ DOMAIN rhyme_cache = {w_blue}

\* A call served from the cache some earlier call filled
C18_HitAfterMiss ==
    /\ rhyme_calls[1].pc = "done" /\ rhyme_calls[1].hit
    /\ rhyme_calls[1].word1 = Blue /\ rhyme_calls[1].result
    /\ rhyme_calls[2].pc = "idle"

(***************************************************************************)
(* cli.py: what parse_args lets through to the dispatcher                  *)
(***************************************************************************)
\* The options of the mutually exclusive group that the command line gives
exclusive_given(a) ==
    { o \in {"timestamp", "retro"} : a[o] }
    \cup { o \in {"mythology", "keywords", "realname", "anagram"} :
             ~IsNone(a[o]) }

\* parse_args returns the namespace a: at most one option of the exclusive
\* group, each option with choices holds one of them, --keywords has a word.
\* --vibe and --profession are added to gen_group, outside the exclusive group
parser_accepts(a, conf) ==
    /\ Cardinality(exclusive_given(a)) <= 1
    /\ IsNone(a.mythology) \/ a.mythology[1] \in DOMAIN conf.mythology \cup {"random"}
    /\ IsNone(a.keywords) \/ Len(a.keywords[1]) >= 1
    /\ IsNone(a.vibe) \/ a.vibe[1] \in DOMAIN conf.vibes
    /\ IsNone(a.profession) \/ a.profession[1] \in DOMAIN conf.professions

(***************************************************************************)
(* Claim about the dispatcher and the parser before it                     *)
(***************************************************************************)
\* The precedence, first to last: the generator and when its mode is asked for
Precedence(a) ==
    << <<"generate_combined_username", truthy_key(a.vibe) /\ truthy_key(a.profession)>>,
       <<"generate_timestamp_username", a.timestamp>>,
       <<"generate_retro_username", a.retro>>,
       <<"generate_vibe_username", truthy_key(a.vibe)>>,
       <<"generate_profession_username", truthy_key(a.profession)>>,
       <<"generate_keyword_username", truthy_seq(a.keywords)>>,
       <<"generate_mythology_username", truthy_key(a.mythology)>>,
       <<"generate_realname_username", truthy_seq(a.realname)>>,
       <<"generate_anagram_username", truthy_seq(a.anagram)>>,
       <<"generate_standard_username", TRUE>> >>

FirstAsked(a) ==
    LET p == Precedence(a)
        i == CHOOSE j \in DOMAIN p : p[j][2] /\ \A k \in 1..(j - 1) : ~p[k][2]
    IN  p[i][1]

VibeOrProfession(a) == ~IsNone(a.vibe) \/ ~IsNone(a.profession)

SeparatorPatterns ==
    << AdjTok \o <<"_">> \o NounTok \o NumTok,
       NounTok \o <<"_">> \o NumTok \o <<"_">>,
       AdjTok \o NounTok >>

SeparatorWords ==
    << Big, <<"a","_","b">>, NounTok, NumTok >>

SeparatorNouns ==
    << Bat, <<"c","_">>, NumTok >>

SeparatorOverrides == { None, Some(<<"-">>), Some(<< >>), Some(<<".",".">>) }

InitSeparator ==
    /\ config = [BaseConfig EXCEPT !.patterns = SeparatorPatterns]
    /\ pronouncing = FALSE
    /\ rhyme_cache = << >>
    /\ pc = "gfp_pattern"
    /\ caller = "direct"
    /\ raised = "none"
    /\ adjectives = SeparatorWords
    /\ nouns = SeparatorNouns
    /\ \E s \in SeparatorOverrides :
          context = [default_context EXCEPT !.separator = s]
    /\ pattern = << >>
    /\ adj = << >>
    /\ noun = << >>
    /\ attempts = 0
    /\ warned = FALSE
    /\ result = << >>
    /\ prior_valid = FALSE
    /\ adj_draws = 0
    /\ noun_draws = 0
    /\ NoRequest
    /\ AnagramIdle
    /\ ProcessIdle
    /\ MainIdle
    /\ ProberIdle

NextSeparator ==
    \/ gfp_choose_pattern
    \/ gfp_attempt
    \/ gfp_construct

SpecSeparator == InitSeparator /\ [][NextSeparator]_vars

(***************************************************************************)
(* Claim about the separator override and the substitution                 *)
(***************************************************************************)
\* Every underscore of p gives way to sep
RECURSIVE WithSeparator(_, _)
WithSeparator(p, sep) ==
    IF Len(p) = 0 THEN << >>
    ELSE (IF p[1] = "_" THEN sep ELSE <<p[1]>>) \o WithSeparator(Tail(p), sep)

\* Each placeholder of p gives way to its word, the words left as they are
RECURSIVE Verbatim(_, _, _, _)
Verbatim(p, a, n, num) ==
    IF Len(p) = 0 THEN << >>
    ELSE IF StartsWith(p, AdjTok)
         THEN a \o Verbatim(SubSeq(p, Len(AdjTok) + 1, Len(p)), a, n, num)
    ELSE IF StartsWith(p, NounTok)
         THEN n \o Verbatim(SubSeq(p, Len(NounTok) + 1, Len(p)), a, n, num)
    ELSE IF StartsWith(p, NumTok)
         THEN num \o Verbatim(SubSeq(p, Len(NumTok) + 1, Len(p)), a, n, num)
    ELSE <<p[1]>> \o Verbatim(Tail(p), a, n, num)

\* C20: with a separator override, the handle generate_from_pattern returns
\* is the chosen pattern with each underscore replaced by the separator and
\* then each placeholder replaced by its word, the adjective, the noun and the
\* number standing in it as they are: no underscore of a word is replaced and
\* nothing inside a word is substituted again.
C20_WordsVerbatim ==
    (pc = "returned" /\ ~IsNone(context.separator)) =>
        \E k \in randint(1, 999) :
            result = Verbatim(WithSeparator(pattern, context.separator[1]),
                              adj, noun, IntToStr(k))

(***************************************************************************)
(* Claim about the warning of generate_from_pattern                        *)
(***************************************************************************)
\* C21: generate_from_pattern warns only when the pair it returns fails a
\* requested constraint: a returned pair that satisfies every requested
\* constraint comes without a warning, also when it is the pair of the 100th
\* attempt.
C21_WarningOnlyForFailingPair ==
    (pc = "returned" /\ raised = "none" /\ warned) =>
        ~AllRequested(context, adj, noun)

=============================================================================
